---- MODULE Spec2Model ----
(***************************************************************************)
(* Batching-and-delivery exporter of the lumberjack Go SDK                 *)
(* (logs_exporter.go, spans_exporter.go and the metrics exporter).         *)
(*                                                                         *)
(* One exporter instance is modelled.  `kind` selects which of the three   *)
(* near-identical exporters it is; the places where they differ (how an    *)
(* Export call groups its appends, the guard of Shutdown, ForceFlush) are  *)
(* keyed on it.  Every goroutine that touches the exporter is a task with  *)
(* a program counter; the buffer mutex, the stop channel, the ticker and   *)
(* the wait group are explicit state.                                      *)
(***************************************************************************)
EXTENDS Integers, Sequences, FiniteSets, TLC

(***************************************************************************)
(* Bounds and configuration                                                *)
(***************************************************************************)
\* Config.BatchSize: the size threshold of the buffer.
BatchSize == 2
\* Config.MaxRetries: retries allowed after the first attempt.
MaxRetries == 2
\* Config.RetryBackoff: the base backoff, in abstract time units.
RetryBackoff == 2
\* Total number of records the producers export in one behaviour.
MaxRecords == 2
\* Largest number of records passed to one Export call.
MaxExport == 2

Producers == {"p1", "p2"}
Flusher == "flusher"
Stoppers == {"s1"}
\* A second caller of Shutdown, for the runs with two callers.
LateStoppers == {"s2"}
AllStoppers == Stoppers \cup LateStoppers
Forcers == {"f1"}
Tasks == Producers \cup {Flusher} \cup AllStoppers \cup Forcers

Kinds == {"logs", "spans", "metrics"}
NoTask == "none"
\* The value of mine[t] while t has no batch to print about.
NoBatch == <<NoTask, 0>>

\* Outcome of one client.Do: 0 is a transport error (err != nil), any other
\* value is the status code of the response.
TransportErr == 0
Outcomes == {TransportErr, 200, 204, 302, 400, 500, 503}

\* One outcome of each class the loop of sendWithRetry tells apart: the
\* transport error, 200, a status below 500 that is not 200, a 5xx.  The
\* exporter's tasks draw from these; the loop run alone draws from Outcomes.
SendOutcomes == {TransportErr, 200, 400, 500}

VARIABLES
  kind,          \* which exporter this is
  batch,         \* e.batch: the live buffer
  batchMu,       \* e.batchMu: the task holding the mutex, or NoTask
  stopCh,        \* e.stopCh: "open" or "closed"
  tickerStopped, \* e.flushTicker.Stop() has been called
  tickC,         \* a tick is waiting in e.flushTicker.C
  wg,            \* e.wg: the wait group counter
  panicked,      \* the process died in a panic (close of a closed channel)
  urlOK,         \* http.NewRequest accepts Config.BaseURL
  pc,            \* position of every task
  entries,       \* the snapshot a task took in flush()
  todo,          \* records of the running Export call not yet appended
  retries,       \* sendWithRetry: retries
  backoff,       \* sendWithRetry: backoff
  ctx,           \* the context a Shutdown call was given
  result,        \* what the last Shutdown call of a task returned
  nextRec,       \* next unused record identity
  appended,      \* history: records in the order they were appended
  handed,        \* history: batches in the order they were passed to sendBatch
  sizeTriggers,  \* history: number of appends that saw shouldFlush
  earlyFlush,    \* history: a snapshot was taken below BatchSize appended records
  r_pc,          \* sendWithRetry run alone: position in sendWithRetry
  r_retries,     \* sendWithRetry run alone: retries
  r_backoff,     \* sendWithRetry run alone: backoff
  r_outcomes,    \* sendWithRetry run alone: outcome of every attempt so far
  r_delays,      \* sendWithRetry run alone: duration of every sleep so far
  r_result,      \* sendWithRetry run alone: how sendWithRetry ended
  debug,         \* Config.Debug: the exporter prints its diagnostics
  console,       \* the diagnostics printed so far, in order
  mine,          \* the batch the diagnostics of a task are about, kept when
                 \* Config.Debug is set: <<task that took it, index in handed>>
  repeat,        \* this Shutdown call began after an earlier one had returned
  exportErr,     \* history: some Export call returned a non-nil error
  sdk_pc,        \* SDK.Shutdown: the component it is at
  sdk_defaults,  \* SDK: the kinds whose default exporter was created
  sdk_closed,    \* SDK: the default exporters whose stopCh is closed
  sdk_tried,     \* SDK.Shutdown: the components whose Shutdown was called
  sdk_errs,      \* SDK.Shutdown: errs, as the components that returned an error
  sdk_ret,       \* SDK.Shutdown: the returned value
  sdk_calls,     \* SDK.Shutdown: Shutdown calls received by the exporter of each kind
  once,          \* package variable once: "new", "running" or "done"
  globalSDK,     \* package variable globalSDK: "nil" or an instance
  newRuns,       \* history: number of runs of newSDK
  a_pc,          \* position of every caller of Init, Get and Shutdown
  a_cfg,         \* the config an Init call was given
  a_ret,         \* what the call of a caller returned
  sdk_config,    \* SDK.config: the slog fields and the custom exporters
  route,         \* SDK.logsExporter, spanExporter, metricsExporter
  slogDefault,   \* the handler of slog.Default()
  chain,         \* the handler the LumberjackHandler forwards to
  got,           \* history: the records every handler and exporter was given
  nextLog,       \* next unused identity of a slog record
  tp_pc,         \* ContextWithTraceparent: "off", "idle" or "done"
  tp_in,         \* ContextWithTraceparent: the traceparent, as its characters
  tp_out,        \* ContextWithTraceparent: the context and the error returned
  l_key,         \* legacy core.Client: config.APIKey after New
  l_stdout,      \* legacy core.Client: config.LogToStdout
  l_batch,       \* legacy core.Client: the entries in c.batch
  l_bg,          \* legacy core.Client: flushes started with go c.flush(), not yet run
  l_sent,        \* legacy core.Client: the bodies of the HTTP requests issued
  l_out,         \* legacy core.Client: number of entries printed to stdout
  l_stop,        \* legacy core.Client: stopCh, "open" or "closed"
  l_panicked,    \* legacy core.Client: Close closed a closed channel
  l_next,        \* legacy core.Client: next unused entry identity
  recLimit,      \* how many records the callers of Export pass in this run
  lg_arrays,     \* Logger: the backing arrays of the attrs slices, by address
  lg_loggers,    \* Logger: each logger's attrs slice (array, len) and the attributes it was built with
  sdk_handler    \* newSDK: the handler given to NewLogger for the SDK built last

expVars == <<kind, batch, batchMu, stopCh, tickerStopped, tickC, wg, panicked,
             pc, entries, todo, retries, backoff, ctx, result, nextRec,
             appended, handed, sizeTriggers, earlyFlush>>
retryVars == <<r_pc, r_retries, r_backoff, r_outcomes, r_delays, r_result>>
obsVars == <<debug, console, mine, repeat, exportErr>>
sdkVars == <<sdk_pc, sdk_defaults, sdk_closed, sdk_tried, sdk_errs, sdk_ret, sdk_calls>>
tpVars == <<tp_pc, tp_in, tp_out>>
legVars == <<l_key, l_stdout, l_batch, l_bg, l_sent, l_out, l_stop, l_panicked, l_next>>
logVars == <<lg_arrays, lg_loggers>>
extVars == <<legVars, recLimit, logVars, sdk_handler>>
appVars == <<once, globalSDK, newRuns, a_pc, a_cfg, a_ret, sdk_config, route,
             slogDefault, chain, got, nextLog, tpVars, extVars>>
vars == <<expVars, urlOK, retryVars, obsVars, sdkVars, appVars>>

(***************************************************************************)
(* Helpers                                                                 *)
(***************************************************************************)
Range(s) == {s[i] : i \in 1..Len(s)}

RECURSIVE Flatten(_)
Flatten(ss) == IF ss = <<>> THEN <<>> ELSE Head(ss) \o Flatten(Tail(ss))

RECURSIVE Sum(_)
Sum(s) == IF s = <<>> THEN 0 ELSE Head(s) + Sum(Tail(s))

RECURSIVE Pow2(_)
Pow2(n) == IF n = 0 THEN 1 ELSE 2 * Pow2(n - 1)

NoDup(s) == \A i, j \in 1..Len(s) : s[i] = s[j] => i = j

(***************************************************************************)
(* sendWithRetry: the decisions of the retry loop                          *)
(***************************************************************************)
\* A loop that stops one retry short.
LoopCondStrict(r) == r < MaxRetries

\* for retries <= e.config.MaxRetries
LoopCond(r) == r <= MaxRetries

\* resp, err := e.client.Do(req); err != nil
IsTransportErr(o) == o = TransportErr

\* resp.StatusCode == http.StatusOK
IsSuccess(o) == o = 200

\* Every failure status is retried, client errors included.
IsServerErrorWide(o) == o >= 400

\* resp.StatusCode >= 500
IsServerError(o) == o >= 500

\* The last permitted retry goes out without a sleep.
SleepAfterStrict(r) == r < MaxRetries

\* if retries <= e.config.MaxRetries { ... time.Sleep ... }, after retries++
SleepAfter(r) == r <= MaxRetries

\* jitter := time.Duration(rand.Float64() * float64(backoff)), Float64 in [0,1)
Jitters(b) == 0..(b - 1)

\* time.Sleep(backoff + jitter)
SleepFor(b, j) == b + j

\* A backoff that grows by the base instead of doubling.
NextBackoffLinear(b) == b + RetryBackoff

\* backoff *= 2
NextBackoff(b) == b * 2

(***************************************************************************)
(* Initial state: NewLogsExporter / NewSpanExporter / NewMetricsExporter   *)
(***************************************************************************)
RetryOff ==
  /\ r_pc = "off"
  /\ r_retries = 0
  /\ r_backoff = RetryBackoff
  /\ r_outcomes = <<>>
  /\ r_delays = <<>>
  /\ r_result = "none"

NewExporter ==
  /\ kind \in Kinds
  /\ batch = <<>>
  /\ batchMu = NoTask
  /\ stopCh = "open"
  /\ tickerStopped = FALSE
  /\ tickC = FALSE
  /\ wg = 1
  /\ panicked = FALSE
  /\ pc = [t \in Tasks |-> IF t = Flusher THEN "select" ELSE "idle"]
  /\ entries = [t \in Tasks |-> <<>>]
  /\ todo = [t \in Tasks |-> <<>>]
  /\ retries = [t \in Tasks |-> 0]
  /\ backoff = [t \in Tasks |-> RetryBackoff]
  /\ ctx = [t \in Tasks |-> "none"]
  /\ result = [t \in Tasks |-> "none"]
  /\ nextRec = 1
  /\ appended = <<>>
  /\ handed = <<>>
  /\ sizeTriggers = 0
  /\ earlyFlush = FALSE
  /\ console = <<>>
  /\ mine = [t \in Tasks |-> NoBatch]
  /\ repeat = [t \in AllStoppers |-> FALSE]
  /\ exportErr = FALSE

\* The handlers of log/slog the program knows: the one the program installed
\* as the default before Init, the stderr text handler of baselineHandler(),
\* and the LumberjackHandler newSDK builds.
UserHandler == "user"
BaseHandler == "base"
LumberjackH == "lumberjack"

\* Where a log record can arrive: a slog handler, the default logs exporter
\* or Config.CustomLogsExporter.
Sinks == {UserHandler, BaseHandler, "default", "custom"}

\* The callers of the package functions Init, Get and Shutdown.
Initers == {"i1", "i2"}
Getters == {"g1"}
Closers == {"c1"}
Callers == Initers \cup Getters \cup Closers

\* The fields of Config newSDK and SDK.Shutdown branch on; a nil *Config is
\* the record with nil set.
NilConfig == [nil |-> TRUE, replace |-> FALSE, prev |-> "nil", custom |-> {}]

\* trace.TraceID is 16 bytes and trace.SpanID is 8 bytes.
TraceIDBytes == 16
SpanIDBytes == 8

\* The zero trace.SpanContext.
NoSpan ==
  [traceID |-> [i \in 1..TraceIDBytes |-> 0], spanID |-> [i \in 1..SpanIDBytes |-> 0],
   sampled |-> FALSE, remote |-> FALSE]

\* The context a caller of ContextWithTraceparent passes.
Ctx0 == [name |-> "ctx0", span |-> NoSpan]

\* No call of ContextWithTraceparent.
TpOff ==
  /\ tp_pc = "off"
  /\ tp_in = <<>>
  /\ tp_out = [ctx |-> Ctx0, err |-> "none"]

\* No legacy core.Client.
LegOff ==
  /\ l_key = ""
  /\ l_stdout = FALSE
  /\ l_batch = <<>>
  /\ l_bg = 0
  /\ l_sent = <<>>
  /\ l_out = 0
  /\ l_stop = "none"
  /\ l_panicked = FALSE
  /\ l_next = 1

\* The package lumberjack before any Init, without the traceparent call.
PkgOff ==
  /\ once = "new"
  /\ globalSDK = "nil"
  /\ newRuns = 0
  /\ a_pc = [c \in Callers |-> "idle"]
  /\ a_cfg = [c \in Initers |-> NilConfig]
  /\ a_ret = [c \in Callers |-> "none"]
  /\ sdk_config = NilConfig
  /\ route = [k \in Kinds |-> "none"]
  /\ slogDefault = UserHandler
  /\ chain = "none"
  /\ got = [h \in Sinks |-> <<>>]
  /\ nextLog = 1

\* The parts of the repository outside the SDK are not in use.
\* No Logger.
LogOff ==
  /\ lg_arrays = <<>>
  /\ lg_loggers = <<>>

ExtOff ==
  /\ LegOff
  /\ recLimit = MaxRecords
  /\ LogOff
  /\ sdk_handler = "none"

\* var ( globalSDK *SDK; once sync.Once ): the package before any Init, with
\* the handler of the program as slog.Default().
AppOff ==
  /\ TpOff
  /\ once = "new"
  /\ globalSDK = "nil"
  /\ newRuns = 0
  /\ a_pc = [c \in Callers |-> "idle"]
  /\ a_cfg = [c \in Initers |-> NilConfig]
  /\ a_ret = [c \in Callers |-> "none"]
  /\ sdk_config = NilConfig
  /\ route = [k \in Kinds |-> "none"]
  /\ slogDefault = UserHandler
  /\ chain = "none"
  /\ got = [h \in Sinks |-> <<>>]
  /\ nextLog = 1
  /\ ExtOff

\* No SDK around the exporter.
SdkOff ==
  /\ sdk_pc = "off"
  /\ sdk_defaults = {}
  /\ sdk_closed = {}
  /\ sdk_tried = {}
  /\ sdk_errs = {}
  /\ sdk_ret = "none"
  /\ sdk_calls = [k \in Kinds |-> 0]

Init ==
  /\ NewExporter
  /\ urlOK = TRUE
  /\ debug = FALSE
  /\ RetryOff
  /\ SdkOff
  /\ AppOff

(***************************************************************************)
(* Export / ExportSpans: append under the mutex, size check, flush         *)
(***************************************************************************)
\* A mutex that excludes nobody.
CanLockAlways == TRUE

\* e.batchMu.Lock() returns only when no task holds the mutex.
CanLock == batchMu = NoTask

\* Every exporter appending one record per critical section.
GroupSizesOne(k, n) == {1}

\* How many of the remaining records one critical section appends: logs
\* appends the whole call at once, spans one span per iteration, metrics the
\* points of one metric per iteration.
GroupSizes(k, n) ==
  IF k = "logs" THEN {n} ELSE IF k = "spans" THEN {1} ELSE 1..n

\* The size check with a strict comparison.
ShouldFlushStrict(b) == Len(b) > BatchSize

\* shouldFlush := len(e.batch) >= e.config.BatchSize
ShouldFlush(b) == Len(b) >= BatchSize

\* Where flush() returns to, by the caller that invoked it.
AfterFlush(t) ==
  IF t \in Producers THEN "exp_loop"
  ELSE IF t = Flusher THEN "select"
  ELSE IF t \in AllStoppers THEN "sd_wait"
  ELSE "idle"

\* A producer calls Export with n fresh records.
ExportCall(p, n) ==
  /\ ~panicked
  /\ pc[p] = "idle"
  /\ nextRec + n - 1 <= recLimit
  /\ todo' = [todo EXCEPT ![p] = [i \in 1..n |-> nextRec + i - 1]]
  /\ nextRec' = nextRec + n
  /\ pc' = [pc EXCEPT ![p] = "exp_loop"]
  /\ UNCHANGED <<kind, batch, batchMu, stopCh, tickerStopped, tickC, wg, panicked,
                 entries, retries, backoff, ctx, result,
                 appended, handed, sizeTriggers, earlyFlush, urlOK, retryVars, sdkVars, appVars,
                 debug, console, mine, repeat, exportErr>>

\* New records put in front of the buffer.
AppendFront(b, g) == g \o b

\* e.batch = append(e.batch, entries...)
AppendTo(b, g) == b \o g

\* e.batchMu.Lock(); append; size check; e.batchMu.Unlock(); then flush() if
\* shouldFlush.  The critical section touches only the buffer, so it is one
\* step that needs the mutex to be free.
ExportAppend(p, g) ==
  /\ ~panicked
  /\ pc[p] = "exp_loop"
  /\ todo[p] # <<>>
  /\ CanLock
  /\ g \in GroupSizes(kind, Len(todo[p]))
  /\ LET group == SubSeq(todo[p], 1, g)
         nb == AppendTo(batch, group)
     IN /\ batch' = nb
        /\ appended' = appended \o group
        /\ todo' = [todo EXCEPT ![p] = SubSeq(todo[p], g + 1, Len(todo[p]))]
        /\ sizeTriggers' = IF ShouldFlush(nb) THEN sizeTriggers + 1 ELSE sizeTriggers
        /\ pc' = [pc EXCEPT ![p] = IF ShouldFlush(nb) THEN "flush" ELSE "exp_loop"]
  /\ UNCHANGED <<kind, batchMu, stopCh, tickerStopped, tickC, wg, panicked,
                 entries, retries, backoff, ctx, result, nextRec,
                 handed, earlyFlush, urlOK, retryVars, sdkVars, appVars,
                 debug, console, mine, repeat, exportErr>>

\* One diagnostic line: the task that printed it, the batch it is about, and
\* what it says ("sent", "failed", "giveup", "noreq", "marshal").
Line(t, b, what) == <<t, b, what>>

\* if e.config.Debug { fmt.Printf(...) }.  The console is kept as its distinct
\* lines in the order each was first printed: a line printed again (the same
\* failure of the same batch on a later attempt) adds nothing.
Say(lines) ==
  IF debug
  THEN console \o SelectSeq(lines, LAMBDA l : l \notin Range(console))
  ELSE console

\* The batches a task was told it could not deliver.
FailedBatches(t) ==
  {l[2] : l \in {m \in Range(console) : m[1] = t /\ m[3] # "sent"}}

\* An Export that reports the delivery failures of its own flush.
ExportResultErr(p) == IF FailedBatches(p) # {} THEN "err" ELSE "nil"

\* return nil
ExportResult(p) == "nil"

\* return nil, once every record of the call has been appended.
ExportReturn(p) ==
  /\ ~panicked
  /\ pc[p] = "exp_loop"
  /\ todo[p] = <<>>
  /\ pc' = [pc EXCEPT ![p] = "idle"]
  /\ exportErr' = (exportErr \/ ExportResult(p) # "nil")
  /\ UNCHANGED <<kind, batch, batchMu, stopCh, tickerStopped, tickC, wg, panicked,
                 entries, todo, retries, backoff, ctx, result, nextRec,
                 appended, handed, sizeTriggers, earlyFlush, urlOK, retryVars, sdkVars, appVars,
                 debug, console, mine, repeat>>

(***************************************************************************)
(* flush: snapshot and clear under the mutex, then sendBatch               *)
(***************************************************************************)
\* A flush that never takes the early return.
IsEmptyNever(b) == FALSE

\* len(e.batch) == 0
IsEmpty(b) == Len(b) = 0

\* e.batchMu.Lock(); if len(e.batch) == 0 { e.batchMu.Unlock(); return }
FlushEmpty(t) ==
  /\ ~panicked
  /\ pc[t] = "flush"
  /\ CanLock
  /\ IsEmpty(batch)
  /\ pc' = [pc EXCEPT ![t] = AfterFlush(t)]
  /\ UNCHANGED <<kind, batch, batchMu, stopCh, tickerStopped, tickC, wg, panicked,
                 entries, todo, retries, backoff, ctx, result, nextRec,
                 appended, handed, sizeTriggers, earlyFlush, urlOK, retryVars, sdkVars, appVars,
                 debug, console, mine, repeat, exportErr>>

\* A copy that stops after the first record.
SnapshotFirst(b) == SubSeq(b, 1, 1)

\* entries := make([]LogEntry, len(e.batch)); copy(entries, e.batch)
Snapshot(b) == b

\* e.batchMu.Lock(); the buffer is not empty: take the copy.  The mutex stays
\* held until FlushClear.
FlushCopy(t) ==
  /\ ~panicked
  /\ pc[t] = "flush"
  /\ CanLock
  /\ ~IsEmpty(batch)
  /\ batchMu' = t
  /\ entries' = [entries EXCEPT ![t] = Snapshot(batch)]
  /\ earlyFlush' = (earlyFlush \/ Len(appended) < BatchSize)
  /\ pc' = [pc EXCEPT ![t] = "fl_clear"]
  /\ UNCHANGED <<kind, batch, stopCh, tickerStopped, tickC, wg, panicked,
                 todo, retries, backoff, ctx, result, nextRec,
                 appended, handed, sizeTriggers, urlOK, retryVars, sdkVars, appVars,
                 debug, console, mine, repeat, exportErr>>

\* json.Marshal of the request: only a metric value (NaN, Inf) can make it fail.
MarshalResults(k) == IF k = "metrics" THEN {TRUE, FALSE} ELSE {TRUE}

\* An unlock deferred to the return of flush(): the mutex stays with the task.
AfterUnlockDeferred(t) == t

\* e.batchMu.Unlock() before sendBatch: nobody holds the mutex.
AfterUnlock(t) == NoTask

\* A send handed to a goroutine of its own when one is free.
SenderSpawned(t) == IF pc["f1"] = "idle" THEN "f1" ELSE t

\* e.sendBatch(entries) is a plain call: the task that flushed is the sender.
Sender(t) == t

\* A clear that leaves the records in the buffer.
TruncateKeep(b) == b

\* e.batch = e.batch[:0]
Truncate(b) == <<>>

\* e.batch = e.batch[:0]; e.batchMu.Unlock(); e.sendBatch(entries) up to the
\* call of sendWithRetry (retries := 0, backoff := RetryBackoff).  The copy is
\* owned by the request from here on.
FlushClear(t, ok) ==
  /\ ~panicked
  /\ pc[t] = "fl_clear"
  /\ ok \in MarshalResults(kind)
  /\ batch' = Truncate(batch)
  /\ batchMu' = AfterUnlock(t)
  /\ handed' = Append(handed, entries[t])
  /\ entries' = [entries EXCEPT ![t] = <<>>]
  /\ LET s == Sender(t)
         b == <<t, Len(handed) + 1>>
     IN /\ retries' = [retries EXCEPT ![s] = 0]
        /\ backoff' = [backoff EXCEPT ![s] = RetryBackoff]
        /\ pc' = IF ~ok THEN [pc EXCEPT ![t] = AfterFlush(t)]
                 ELSE IF s = t THEN [pc EXCEPT ![t] = "send"]
                 ELSE [pc EXCEPT ![t] = AfterFlush(t), ![s] = "send"]
        /\ mine' = IF ok /\ debug THEN [mine EXCEPT ![s] = b] ELSE mine
        /\ console' = IF ok THEN console ELSE Say(<<Line(t, b, "marshal")>>)
  /\ UNCHANGED <<kind, stopCh, tickerStopped, tickC, wg, panicked,
                 todo, ctx, result, nextRec,
                 appended, sizeTriggers, earlyFlush, urlOK, retryVars, sdkVars, appVars,
                 debug, repeat, exportErr>>

(***************************************************************************)
(* sendWithRetry, as run by the tasks of the exporter                      *)
(***************************************************************************)
\* One iteration of the loop: NewRequest, client.Do, classification.  The
\* locals retries and backoff die when sendWithRetry returns.
SendAttempt(t, o) ==
  /\ ~panicked
  /\ pc[t] = "send"
  /\ o \in Outcomes
  /\ IF ~urlOK \/ (~IsTransportErr(o) /\ (IsSuccess(o) \/ ~IsServerError(o)))
     THEN /\ pc' = [pc EXCEPT ![t] = AfterFlush(t)]
          /\ retries' = [retries EXCEPT ![t] = 0]
          /\ backoff' = [backoff EXCEPT ![t] = RetryBackoff]
          /\ mine' = [mine EXCEPT ![t] = NoBatch]
          /\ console' = Say(<<Line(t, mine[t],
                                   IF ~urlOK THEN "noreq"
                                   ELSE IF IsSuccess(o) THEN "sent"
                                   ELSE "failed")>>)
     ELSE IF SleepAfter(retries[t] + 1)
     THEN /\ pc' = [pc EXCEPT ![t] = "sleep"]
          /\ retries' = [retries EXCEPT ![t] = retries[t] + 1]
          /\ console' = Say(<<Line(t, mine[t], "failed")>>)
          /\ UNCHANGED <<backoff, mine>>
     ELSE IF LoopCond(retries[t] + 1)
     THEN /\ pc' = [pc EXCEPT ![t] = "send"]
          /\ retries' = [retries EXCEPT ![t] = retries[t] + 1]
          /\ console' = Say(<<Line(t, mine[t], "failed")>>)
          /\ UNCHANGED <<backoff, mine>>
     ELSE /\ pc' = [pc EXCEPT ![t] = AfterFlush(t)]
          /\ retries' = [retries EXCEPT ![t] = 0]
          /\ backoff' = [backoff EXCEPT ![t] = RetryBackoff]
          /\ mine' = [mine EXCEPT ![t] = NoBatch]
          /\ console' = Say(<<Line(t, mine[t], "failed"),
                              Line(t, mine[t], "giveup")>>)
  /\ UNCHANGED <<kind, batch, batchMu, stopCh, tickerStopped, tickC, wg, panicked,
                 entries, todo, ctx, result, nextRec,
                 appended, handed, sizeTriggers, earlyFlush, urlOK, retryVars, sdkVars, appVars,
                 debug, repeat, exportErr>>

\* time.Sleep(backoff + jitter); backoff *= 2; back to the loop condition.
SendSleep(t) ==
  /\ ~panicked
  /\ pc[t] = "sleep"
  /\ IF LoopCond(retries[t])
     THEN /\ pc' = [pc EXCEPT ![t] = "send"]
          /\ backoff' = [backoff EXCEPT ![t] = NextBackoff(backoff[t])]
          /\ UNCHANGED <<retries, mine, console>>
     ELSE /\ pc' = [pc EXCEPT ![t] = AfterFlush(t)]
          /\ retries' = [retries EXCEPT ![t] = 0]
          /\ backoff' = [backoff EXCEPT ![t] = RetryBackoff]
          /\ mine' = [mine EXCEPT ![t] = NoBatch]
          /\ console' = Say(<<Line(t, mine[t], "giveup")>>)
  /\ UNCHANGED <<kind, batch, batchMu, stopCh, tickerStopped, tickC, wg, panicked,
                 entries, todo, ctx, result, nextRec,
                 appended, handed, sizeTriggers, earlyFlush, urlOK, retryVars, sdkVars, appVars,
                 debug, repeat, exportErr>>

(***************************************************************************)
(* runFlusher and the ticker                                               *)
(***************************************************************************)
\* The runtime delivers a tick into flushTicker.C (capacity 1; a tick that
\* finds the channel full is dropped).
TickerFire ==
  /\ ~panicked
  /\ ~tickerStopped
  /\ ~tickC
  /\ tickC' = TRUE
  /\ UNCHANGED <<kind, batch, batchMu, stopCh, tickerStopped, wg, panicked,
                 pc, entries, todo, retries, backoff, ctx, result, nextRec,
                 appended, handed, sizeTriggers, earlyFlush, urlOK, retryVars, sdkVars, appVars,
                 debug, console, mine, repeat, exportErr>>

\* The flusher takes the tick and goes back to the select without flushing.
FlusherTickDrop ==
  /\ ~panicked
  /\ pc[Flusher] = "select"
  /\ tickC
  /\ tickC' = FALSE
  /\ UNCHANGED <<kind, batch, batchMu, stopCh, tickerStopped, wg, panicked,
                 pc, entries, todo, retries, backoff, ctx, result, nextRec,
                 appended, handed, sizeTriggers, earlyFlush, urlOK, retryVars, sdkVars, appVars,
                 debug, console, mine, repeat, exportErr>>

\* case <-e.flushTicker.C: e.flush()
FlusherTick ==
  /\ ~panicked
  /\ pc[Flusher] = "select"
  /\ tickC
  /\ tickC' = FALSE
  /\ pc' = [pc EXCEPT ![Flusher] = "flush"]
  /\ UNCHANGED <<kind, batch, batchMu, stopCh, tickerStopped, wg, panicked,
                 entries, todo, retries, backoff, ctx, result, nextRec,
                 appended, handed, sizeTriggers, earlyFlush, urlOK, retryVars, sdkVars, appVars,
                 debug, console, mine, repeat, exportErr>>

\* A flusher that reports its exit and goes on selecting.
FlusherStopStays ==
  /\ ~panicked
  /\ pc[Flusher] = "select"
  /\ stopCh = "closed"
  /\ wg > 0
  /\ wg' = wg - 1
  /\ UNCHANGED <<kind, batch, batchMu, stopCh, tickerStopped, tickC, panicked,
                 pc, entries, todo, retries, backoff, ctx, result, nextRec,
                 appended, handed, sizeTriggers, earlyFlush, urlOK, retryVars, sdkVars, appVars,
                 debug, console, mine, repeat, exportErr>>

\* case <-e.stopCh: return, with the deferred e.wg.Done()
FlusherStop ==
  /\ ~panicked
  /\ pc[Flusher] = "select"
  /\ stopCh = "closed"
  /\ pc' = [pc EXCEPT ![Flusher] = "exited"]
  /\ wg' = wg - 1
  /\ UNCHANGED <<kind, batch, batchMu, stopCh, tickerStopped, tickC, panicked,
                 entries, todo, retries, backoff, ctx, result, nextRec,
                 appended, handed, sizeTriggers, earlyFlush, urlOK, retryVars, sdkVars, appVars,
                 debug, console, mine, repeat, exportErr>>

(***************************************************************************)
(* ForceFlush (metrics exporter only)                                      *)
(***************************************************************************)
ForceFlush(t) ==
  /\ ~panicked
  /\ kind = "metrics"
  /\ pc[t] = "idle"
  /\ pc' = [pc EXCEPT ![t] = "flush"]
  /\ UNCHANGED <<kind, batch, batchMu, stopCh, tickerStopped, tickC, wg, panicked,
                 entries, todo, retries, backoff, ctx, result, nextRec,
                 appended, handed, sizeTriggers, earlyFlush, urlOK, retryVars, sdkVars, appVars,
                 debug, console, mine, repeat, exportErr>>

(***************************************************************************)
(* Shutdown                                                                *)
(***************************************************************************)
\* The contexts a caller can pass: one that never expires, one with a
\* deadline still ahead, one that is already done.
Contexts == {"background", "live", "done"}

\* The logs and metrics exporters test stopCh before closing it; the span
\* exporter closes it unconditionally.
HasStopGuard(k) == k # "spans"

ShutdownCall(t, c) ==
  /\ ~panicked
  /\ pc[t] = "idle"
  /\ c \in Contexts
  /\ ctx' = [ctx EXCEPT ![t] = c]
  /\ result' = [result EXCEPT ![t] = "running"]
  /\ pc' = [pc EXCEPT ![t] = IF HasStopGuard(kind) THEN "sd_check" ELSE "sd_close"]
  /\ repeat' = [repeat EXCEPT ![t] =
                  \E s \in AllStoppers : result[s] \in {"nil", "ctxErr"}]
  /\ UNCHANGED <<kind, batch, batchMu, stopCh, tickerStopped, tickC, wg, panicked,
                 entries, todo, retries, backoff, nextRec,
                 appended, handed, sizeTriggers, earlyFlush, urlOK, retryVars, sdkVars, appVars,
                 debug, console, mine, exportErr>>

\* select { case <-e.stopCh: return nil; default: ... }
ShutdownCheck(t) ==
  /\ ~panicked
  /\ pc[t] = "sd_check"
  /\ IF stopCh = "closed"
     THEN /\ pc' = [pc EXCEPT ![t] = "idle"]
          /\ result' = [result EXCEPT ![t] = "nil"]
          /\ ctx' = [ctx EXCEPT ![t] = "none"]
     ELSE /\ pc' = [pc EXCEPT ![t] = "sd_close"]
          /\ UNCHANGED <<result, ctx>>
  /\ UNCHANGED <<kind, batch, batchMu, stopCh, tickerStopped, tickC, wg, panicked,
                 entries, todo, retries, backoff, nextRec,
                 appended, handed, sizeTriggers, earlyFlush, urlOK, retryVars, sdkVars, appVars,
                 debug, console, mine, repeat, exportErr>>

\* close(e.stopCh): closing a closed channel panics.
ShutdownClose(t) ==
  /\ ~panicked
  /\ pc[t] = "sd_close"
  /\ IF stopCh = "closed"
     THEN /\ panicked' = TRUE
          /\ result' = [result EXCEPT ![t] = "panic"]
          /\ UNCHANGED <<stopCh, pc>>
     ELSE /\ stopCh' = "closed"
          /\ pc' = [pc EXCEPT ![t] = "sd_stop"]
          /\ UNCHANGED <<panicked, result>>
  /\ UNCHANGED <<kind, batch, batchMu, tickerStopped, tickC, wg,
                 entries, todo, retries, backoff, ctx, nextRec,
                 appended, handed, sizeTriggers, earlyFlush, urlOK, retryVars, sdkVars, appVars,
                 debug, console, mine, repeat, exportErr>>

\* A final flush that is skipped when the caller's context is already done.
AfterStopCtx(c) == IF c = "done" THEN "sd_wait" ELSE "flush"

\* e.flush() follows e.flushTicker.Stop() whatever the context says.
AfterStop(c) == "flush"

\* e.flushTicker.Stop(), then the call of e.flush().  Stop does not close the
\* channel; whether a tick already in it can still be received depends on the
\* Go release the program is built with, so both are possible.
ShutdownStopTicker(t, keep) ==
  /\ ~panicked
  /\ pc[t] = "sd_stop"
  /\ keep \in BOOLEAN
  /\ tickerStopped' = TRUE
  /\ tickC' = (tickC /\ keep)
  /\ pc' = [pc EXCEPT ![t] = AfterStop(ctx[t])]
  /\ UNCHANGED <<kind, batch, batchMu, stopCh, wg, panicked,
                 entries, todo, retries, backoff, ctx, result, nextRec,
                 appended, handed, sizeTriggers, earlyFlush, urlOK, retryVars, sdkVars, appVars,
                 debug, console, mine, repeat, exportErr>>

\* The deadline of the caller's context passes.
CtxExpire(t) ==
  /\ ~panicked
  /\ pc[t] # "idle"
  /\ ctx[t] = "live"
  /\ ctx' = [ctx EXCEPT ![t] = "done"]
  /\ UNCHANGED <<kind, batch, batchMu, stopCh, tickerStopped, tickC, wg, panicked,
                 pc, entries, todo, retries, backoff, result, nextRec,
                 appended, handed, sizeTriggers, earlyFlush, urlOK, retryVars, sdkVars, appVars,
                 debug, console, mine, repeat, exportErr>>

\* A wait that does not wait.
WaitOverAlways(n) == TRUE

\* e.wg.Wait() returns once the counter is zero.
WaitOver(n) == n = 0

\* case <-done: return nil.  done is closed by the helper goroutine once
\* e.wg.Wait() returns, that is once the counter is zero.
ShutdownDone(t) ==
  /\ ~panicked
  /\ pc[t] = "sd_wait"
  /\ WaitOver(wg)
  /\ pc' = [pc EXCEPT ![t] = "idle"]
  /\ result' = [result EXCEPT ![t] = "nil"]
  /\ ctx' = [ctx EXCEPT ![t] = "none"]
  /\ UNCHANGED <<kind, batch, batchMu, stopCh, tickerStopped, tickC, wg, panicked,
                 entries, todo, retries, backoff, nextRec,
                 appended, handed, sizeTriggers, earlyFlush, urlOK, retryVars, sdkVars, appVars,
                 debug, console, mine, repeat, exportErr>>

\* A deadline that is swallowed.
CtxErrNil(c) == "nil"

\* ctx.Err() of a context that is done is never nil.
CtxErr(c) == "ctxErr"

\* case <-ctx.Done(): return ctx.Err()
ShutdownDeadline(t) ==
  /\ ~panicked
  /\ pc[t] = "sd_wait"
  /\ ctx[t] = "done"
  /\ pc' = [pc EXCEPT ![t] = "idle"]
  /\ result' = [result EXCEPT ![t] = CtxErr(ctx[t])]
  /\ ctx' = [ctx EXCEPT ![t] = "none"]
  /\ UNCHANGED <<kind, batch, batchMu, stopCh, tickerStopped, tickC, wg, panicked,
                 entries, todo, retries, backoff, nextRec,
                 appended, handed, sizeTriggers, earlyFlush, urlOK, retryVars, sdkVars, appVars,
                 debug, console, mine, repeat, exportErr>>

(***************************************************************************)
(* The exporter with its producers, flusher and shutdown callers           *)
(***************************************************************************)
Next ==
  \/ \E p \in Producers, n \in 1..MaxExport : ExportCall(p, n)
  \/ \E p \in Producers, g \in 1..MaxExport : ExportAppend(p, g)
  \/ \E p \in Producers : ExportReturn(p)
  \/ \E t \in Tasks : FlushEmpty(t)
  \/ \E t \in Tasks : FlushCopy(t)
  \/ \E t \in Tasks, ok \in BOOLEAN : FlushClear(t, ok)
  \/ \E t \in Tasks, o \in SendOutcomes : SendAttempt(t, o)
  \/ \E t \in Tasks : SendSleep(t)
  \/ TickerFire
  \/ FlusherTick
  \/ FlusherStop
  \/ \E t \in Forcers : ForceFlush(t)
  \/ \E t \in Stoppers, c \in Contexts : ShutdownCall(t, c)
  \/ \E t \in Stoppers : ShutdownCheck(t)
  \/ \E t \in Stoppers : ShutdownClose(t)
  \/ \E t \in Stoppers, keep \in BOOLEAN : ShutdownStopTicker(t, keep)
  \/ \E t \in Stoppers : CtxExpire(t)
  \/ \E t \in Stoppers : ShutdownDone(t)
  \/ \E t \in Stoppers : ShutdownDeadline(t)

Spec == Init /\ [][Next]_vars

TypeOK ==
  /\ kind \in Kinds
  /\ batchMu \in Tasks \cup {NoTask}
  /\ wg \in 0..1
  /\ Len(appended) <= MaxRecords

(***************************************************************************)
(* Fair scheduling: the Go scheduler lets every goroutine that can run     *)
(* take its next step, a client.Do ends (the client has a 30s timeout),    *)
(* and a running ticker keeps firing.  Callers are free never to call      *)
(* Export, ForceFlush or Shutdown, and a deadline need not pass.           *)
(***************************************************************************)
TaskStep(t) ==
  \/ \E g \in 1..MaxExport : t \in Producers /\ ExportAppend(t, g)
  \/ t \in Producers /\ ExportReturn(t)
  \/ FlushEmpty(t)
  \/ FlushCopy(t)
  \/ \E ok \in BOOLEAN : FlushClear(t, ok)
  \/ \E o \in SendOutcomes : SendAttempt(t, o)
  \/ SendSleep(t)
  \/ t = Flusher /\ (FlusherTick \/ FlusherStop)
  \/ t \in AllStoppers /\ (ShutdownCheck(t) \/ ShutdownClose(t) \/ ShutdownDone(t)
                         \/ ShutdownDeadline(t)
                         \/ \E keep \in BOOLEAN : ShutdownStopTicker(t, keep))

\* The exporter with a single producer and no ForceFlush caller.
TimerProducers == {"p1"}

NextTimer ==
  \/ \E p \in TimerProducers, n \in 1..MaxExport : ExportCall(p, n)
  \/ \E p \in TimerProducers, g \in 1..MaxExport : ExportAppend(p, g)
  \/ \E p \in TimerProducers : ExportReturn(p)
  \/ \E t \in Tasks : FlushEmpty(t)
  \/ \E t \in Tasks : FlushCopy(t)
  \/ \E t \in Tasks, ok \in BOOLEAN : FlushClear(t, ok)
  \/ \E t \in Tasks, o \in SendOutcomes : SendAttempt(t, o)
  \/ \E t \in Tasks : SendSleep(t)
  \/ TickerFire
  \/ FlusherTick
  \/ FlusherStop
  \/ \E t \in Stoppers, c \in Contexts : ShutdownCall(t, c)
  \/ \E t \in Stoppers : ShutdownCheck(t)
  \/ \E t \in Stoppers : ShutdownClose(t)
  \/ \E t \in Stoppers, keep \in BOOLEAN : ShutdownStopTicker(t, keep)
  \/ \E t \in Stoppers : CtxExpire(t)
  \/ \E t \in Stoppers : ShutdownDone(t)
  \/ \E t \in Stoppers : ShutdownDeadline(t)

TimerSpec ==
  /\ Init
  /\ [][NextTimer]_vars
  /\ WF_vars(TickerFire)
  /\ \A t \in Tasks : WF_vars(TaskStep(t))

\* The same exporter built with Config.Debug set: every diagnostic is printed.
InitDebug ==
  /\ NewExporter
  /\ urlOK = TRUE
  /\ debug = TRUE
  /\ RetryOff
  /\ SdkOff
  /\ AppOff

DebugSpec == InitDebug /\ [][NextTimer]_vars

\* The exporter with one producer and two callers of Shutdown.
NextShutdown ==
  \/ \E p \in TimerProducers, n \in 1..MaxExport : ExportCall(p, n)
  \/ \E p \in TimerProducers, g \in 1..MaxExport : ExportAppend(p, g)
  \/ \E p \in TimerProducers : ExportReturn(p)
  \/ \E t \in Tasks : FlushEmpty(t)
  \/ \E t \in Tasks : FlushCopy(t)
  \/ \E t \in Tasks, ok \in BOOLEAN : FlushClear(t, ok)
  \/ \E t \in Tasks, o \in SendOutcomes : SendAttempt(t, o)
  \/ \E t \in Tasks : SendSleep(t)
  \/ TickerFire
  \/ FlusherTick
  \/ FlusherStop
  \/ \E t \in AllStoppers, c \in Contexts : ShutdownCall(t, c)
  \/ \E t \in AllStoppers : ShutdownCheck(t)
  \/ \E t \in AllStoppers : ShutdownClose(t)
  \/ \E t \in AllStoppers, keep \in BOOLEAN : ShutdownStopTicker(t, keep)
  \/ \E t \in AllStoppers : CtxExpire(t)
  \/ \E t \in AllStoppers : ShutdownDone(t)
  \/ \E t \in AllStoppers : ShutdownDeadline(t)

ShutdownSpec == Init /\ [][NextShutdown]_vars

\* Callers that do not overlap Export and Shutdown: Export is called only
\* while no Shutdown call is running, Shutdown only while no Export call is.
QuietExportCall(p, n) ==
  /\ \A s \in AllStoppers : pc[s] = "idle"
  /\ ExportCall(p, n)

QuietShutdownCall(t, c) ==
  /\ \A p \in Producers : pc[p] = "idle"
  /\ ShutdownCall(t, c)

\* The exporter with such callers; the flusher and its ticker run as ever.
NextDrain ==
  \/ \E p \in TimerProducers, n \in 1..MaxExport : QuietExportCall(p, n)
  \/ \E p \in TimerProducers, g \in 1..MaxExport : ExportAppend(p, g)
  \/ \E p \in TimerProducers : ExportReturn(p)
  \/ \E t \in Tasks : FlushEmpty(t)
  \/ \E t \in Tasks : FlushCopy(t)
  \/ \E t \in Tasks, ok \in BOOLEAN : FlushClear(t, ok)
  \/ \E t \in Tasks, o \in SendOutcomes : SendAttempt(t, o)
  \/ \E t \in Tasks : SendSleep(t)
  \/ TickerFire
  \/ FlusherTick
  \/ FlusherStop
  \/ \E t \in Stoppers, c \in Contexts : QuietShutdownCall(t, c)
  \/ \E t \in Stoppers : ShutdownCheck(t)
  \/ \E t \in Stoppers : ShutdownClose(t)
  \/ \E t \in Stoppers, keep \in BOOLEAN : ShutdownStopTicker(t, keep)
  \/ \E t \in Stoppers : CtxExpire(t)
  \/ \E t \in Stoppers : ShutdownDone(t)
  \/ \E t \in Stoppers : ShutdownDeadline(t)

DrainSpec == Init /\ [][NextDrain]_vars

(***************************************************************************)
(* Properties of the buffer and of flush                                   *)
(***************************************************************************)
Records == 1..MaxRecords
Sent == Flatten(handed)
InSend(t) == pc[t] \in {"send", "sleep"}

\* C1: in every interleaving of Export, size, timer, ForceFlush and shutdown
\* flushes, no record is in two batches passed to the sender, and a record
\* that is in such a batch is no longer in the live buffer.
C1_NoDoubleSend ==
  /\ NoDup(Sent)
  /\ Range(Sent) \cap Range(batch) = {}

\* Two flushes raced: two batches are out and two tasks are sending at once.
C1_Witness ==
  /\ Len(handed) = 2
  /\ \E t1, t2 \in Tasks : t1 # t2 /\ InSend(t1) /\ InSend(t2)

\* No snapshot is pending and the buffer is empty: a flush ran after the
\* last append.
Quiescent == batch = <<>> /\ \A t \in Tasks : pc[t] # "fl_clear"

\* C2: once a flush has run with no append after it, the batches passed to
\* the sender hold exactly the appended records, each one exactly once.
C2_NoLossNoDup ==
  Quiescent =>
    /\ NoDup(Sent)
    /\ Len(Sent) = Len(appended)
    /\ Range(Sent) = Range(appended)

\* All records were appended and went out in more than one batch.
C2_Witness ==
  /\ Quiescent
  /\ Len(appended) = MaxRecords
  /\ Len(handed) >= 2

\* No producer is between its size check and the hand-off of its flush.
NoSizeFlushPending == \A p \in Producers : pc[p] \notin {"flush", "fl_clear"}

\* C3: when exactly BatchSize records have been appended and no snapshot was
\* taken before the threshold was reached, exactly one append saw
\* shouldFlush, and once that flush has run the sender holds exactly one
\* batch with the records in append order and the buffer is empty.
C3_ThresholdTrigger ==
  (Len(appended) = BatchSize /\ ~earlyFlush) =>
    /\ sizeTriggers = 1
    /\ NoSizeFlushPending => (handed = <<appended>> /\ batch = <<>>)

\* The span exporter (one append per record) reached the threshold and the
\* size-triggered flush has handed the batch over.
C3_Witness ==
  /\ kind = "spans"
  /\ Len(appended) = BatchSize
  /\ ~earlyFlush
  /\ sizeTriggers = 1
  /\ NoSizeFlushPending
  /\ handed = <<appended>>
  /\ batch = <<>>

\* C4: while the exporter is running, every record in the buffer is
\* eventually passed to the sender (by the timer flush if nothing else
\* takes it), or the exporter is shut down.
C4_TimerFlushes ==
  \A r \in Records :
    (r \in Range(batch) /\ stopCh = "open")
      ~> (r \in Range(Sent) \/ stopCh = "closed")

\* The timer flush has taken a snapshot below the size threshold while the
\* exporter is running.
C4_Witness ==
  /\ stopCh = "open"
  /\ pc[Flusher] = "fl_clear"
  /\ Len(entries[Flusher]) >= 1
  /\ Len(entries[Flusher]) < BatchSize

\* The shared state of the exporter, apart from the caller's own position.
Shared == <<batch, batchMu, stopCh, tickerStopped, tickC, wg, handed, appended,
            entries, retries, backoff>>

\* C5: a flush that finds the buffer empty returns to its caller without
\* entering the sender (no HTTP call) and changes nothing in the exporter,
\* whichever task and trigger called it.
C5_EmptyFlushFree ==
  [][\A t \in Tasks :
       (pc[t] = "flush" /\ batch = <<>> /\ pc'[t] # "flush")
         => (pc'[t] = AfterFlush(t) /\ Shared' = Shared)]_vars

\* A timer flush, a ForceFlush or a shutdown flush found the buffer empty
\* and is back at its caller.
C5_Witness ==
  /\ batch = <<>>
  /\ handed = <<>>
  /\ pc["s1"] = "sd_wait"

(***************************************************************************)
(* sendWithRetry run alone on one batch, with the outcome of every attempt *)
(* and the length of every sleep recorded.                                 *)
(***************************************************************************)
InitRetry ==
  /\ NewExporter
  /\ urlOK \in BOOLEAN
  /\ debug = FALSE
  /\ SdkOff
  /\ AppOff
  /\ r_pc = "loop"
  /\ r_retries = 0
  /\ r_backoff = RetryBackoff
  /\ r_outcomes = <<>>
  /\ r_delays = <<>>
  /\ r_result = "none"

\* A transport error that is retried without being counted.
AfterTransportErrFree(r) == r

\* if err != nil { ...; retries++; ... }: a transport error counts on the
\* same counter as a 5xx response.
AfterTransportErr(r) == r + 1

\* One iteration of the loop body up to the sleep.
RetryAttempt(o) ==
  /\ r_pc = "loop"
  /\ LoopCond(r_retries)
  /\ o \in Outcomes
  /\ IF ~urlOK
     THEN \* http.NewRequest failed: return
          /\ r_pc' = "done"
          /\ r_result' = "noreq"
          /\ UNCHANGED <<r_retries, r_outcomes>>
     ELSE /\ r_outcomes' = Append(r_outcomes, o)
          /\ IF IsTransportErr(o)
             THEN /\ r_retries' = AfterTransportErr(r_retries)
                  /\ r_pc' = IF SleepAfter(r_retries + 1) THEN "sleep" ELSE "loop"
                  /\ UNCHANGED r_result
             ELSE IF IsSuccess(o)
             THEN /\ r_pc' = "done"
                  /\ r_result' = "success"
                  /\ UNCHANGED r_retries
             ELSE IF IsServerError(o)
             THEN /\ r_retries' = r_retries + 1
                  /\ r_pc' = IF SleepAfter(r_retries + 1) THEN "sleep" ELSE "loop"
                  /\ UNCHANGED r_result
             ELSE \* break
                  /\ r_pc' = "done"
                  /\ r_result' = "abandoned"
                  /\ UNCHANGED r_retries
  /\ UNCHANGED <<expVars, obsVars, sdkVars, appVars, urlOK, r_backoff, r_delays>>

\* jitter; time.Sleep(backoff + jitter); backoff *= 2
RetrySleep(j) ==
  /\ r_pc = "sleep"
  /\ j \in Jitters(r_backoff)
  /\ r_delays' = Append(r_delays, SleepFor(r_backoff, j))
  /\ r_backoff' = NextBackoff(r_backoff)
  /\ r_pc' = "loop"
  /\ UNCHANGED <<expVars, obsVars, sdkVars, appVars, urlOK, r_retries, r_outcomes, r_result>>

\* The loop condition fails: retries > MaxRetries, the batch is given up.
RetryExhausted ==
  /\ r_pc = "loop"
  /\ ~LoopCond(r_retries)
  /\ r_pc' = "done"
  /\ r_result' = "exhausted"
  /\ UNCHANGED <<expVars, obsVars, sdkVars, appVars, urlOK, r_retries, r_backoff, r_outcomes, r_delays>>

\* Largest jitter any sleep of the loop can draw.
MaxJitter == RetryBackoff * Pow2(MaxRetries + 1)

NextRetry ==
  \/ \E o \in Outcomes : RetryAttempt(o)
  \/ \E j \in 0..MaxJitter : RetrySleep(j)
  \/ RetryExhausted

SpecRetry == InitRetry /\ [][NextRetry]_vars

(***************************************************************************)
(* Properties of sendWithRetry                                             *)
(***************************************************************************)
Attempts == Len(r_outcomes)
AllOutcomes(P(_)) == \A i \in 1..Attempts : P(r_outcomes[i])
Is500(o) == o = 500
Is4xx(o) == o >= 400 /\ o <= 499
Is2xx(o) == o >= 200 /\ o <= 299
IsRetryable(o) == o = TransportErr \/ (o >= 500 /\ o <= 599)

\* C6: when every response is a 500, sendWithRetry makes exactly
\* MaxRetries + 1 attempts and then gives the batch up.
C6_Always500 ==
  (urlOK /\ AllOutcomes(Is500)) =>
    /\ Attempts <= MaxRetries + 1
    /\ r_pc = "done" => (Attempts = MaxRetries + 1 /\ r_result = "exhausted")

\* Every attempt got a 500 and the loop has ended.
C6_Witness ==
  /\ r_pc = "done"
  /\ Attempts = MaxRetries + 1
  /\ AllOutcomes(Is500)
  /\ r_result = "exhausted"

\* C7: the k-th sleep of the loop (k = 1, 2, ...) lasts at least
\* RetryBackoff * 2^(k-1) and at most twice that, and the backoff in force
\* after k sleeps is RetryBackoff * 2^k.
C7_BackoffBounds ==
  /\ r_backoff = RetryBackoff * Pow2(Len(r_delays))
  /\ \A k \in 1..Len(r_delays) :
       /\ r_delays[k] >= RetryBackoff * Pow2(k - 1)
       /\ r_delays[k] <= 2 * RetryBackoff * Pow2(k - 1)

\* Every permitted retry slept, the first one with a non-zero jitter.
C7_Witness ==
  /\ Len(r_delays) = MaxRetries
  /\ r_delays[1] > RetryBackoff
  /\ r_delays[MaxRetries] >= RetryBackoff * Pow2(MaxRetries - 1)

\* C8: a 4xx response ends the loop at once: it is the last attempt, no
\* sleep follows it and the batch is abandoned.
C8_ClientErrorStops ==
  \A i \in 1..Attempts :
    Is4xx(r_outcomes[i]) =>
      /\ i = Attempts
      /\ r_pc = "done"
      /\ r_result = "abandoned"
      /\ Len(r_delays) = i - 1

\* A 400 on the first attempt: one attempt, no sleep.
C8_Witness ==
  /\ r_outcomes = <<400>>
  /\ r_pc = "done"
  /\ r_delays = <<>>

\* C9: every 2xx response ends the loop with the batch delivered.
C9_Any2xxDelivered ==
  \A i \in 1..Attempts :
    Is2xx(r_outcomes[i]) =>
      (i = Attempts /\ r_pc = "done" /\ r_result = "success")

\* C10: when the first k attempts fail retryably (k <= MaxRetries) the loop
\* goes on to attempt k + 1, and when that attempt succeeds exactly k + 1
\* attempts and k sleeps have happened, the sleeps add up to at least
\* RetryBackoff * (2^k - 1), and the batch is delivered.
C10_RetryThenSuccess ==
  /\ (urlOK /\ Attempts <= MaxRetries /\ AllOutcomes(IsRetryable)) => r_pc # "done"
  /\ \A k \in 0..MaxRetries :
       (/\ Attempts >= k + 1
        /\ \A i \in 1..k : IsRetryable(r_outcomes[i])
        /\ r_outcomes[k + 1] = 200)
       => /\ Attempts = k + 1
          /\ r_pc = "done"
          /\ r_result = "success"
          /\ Len(r_delays) = k
          /\ Sum(r_delays) >= RetryBackoff * (Pow2(k) - 1)

\* 503, 503, then success on the third attempt.
C10_Witness ==
  /\ r_outcomes = <<503, 503, 200>>
  /\ r_result = "success"
  /\ Len(r_delays) = 2

(***************************************************************************)
(* Properties of Shutdown                                                  *)
(***************************************************************************)
\* The positions of a Shutdown call that has got past the test of stopCh.
PastGuard == {"sd_stop", "flush", "fl_clear", "send", "sleep", "sd_wait"}

\* C11: a Shutdown call that begins after an earlier Shutdown call has
\* returned is a silent no-op: it does not panic on the stop channel, it does
\* not flush or send, and what it returns is nil.
C11_RepeatShutdownNoop ==
  \A t \in AllStoppers :
    repeat[t] =>
      /\ result[t] # "panic"
      /\ pc[t] \notin PastGuard
      /\ (pc[t] = "idle" => result[t] = "nil")

\* C12: when two tasks call Shutdown concurrently (neither call began after
\* a Shutdown call had returned), the stop channel is closed once: no call
\* panics and at most one call gets past the test of the stop channel.
C12_ConcurrentShutdownOnce ==
  /\ \A t \in AllStoppers : ~repeat[t] => result[t] # "panic"
  /\ \A t, u \in AllStoppers :
       (t # u /\ ~repeat[t] /\ ~repeat[u])
         => ~(pc[t] \in PastGuard \cup {"sd_close"} /\ pc[u] \in PastGuard)

\* C13: with callers that run no Export during a Shutdown call, when the
\* Shutdown call that closed the stop channel returns, with nil or with the
\* deadline error, the buffer is empty and every record appended so far has
\* been handed to the sender in exactly one batch; an expired deadline does
\* not skip the flush.
C13_FirstShutdownDrains ==
  [][\A t \in AllStoppers :
       (pc[t] = "sd_wait" /\ pc'[t] = "idle")
         => /\ batch = <<>>
            /\ Range(appended) = Range(Sent)
            /\ NoDup(Sent)
            /\ result'[t] \in {"nil", "ctxErr"}]_vars

\* A Shutdown call whose deadline has passed has flushed the buffer all the
\* same and is about to return, the flusher still running.
C13_Witness ==
  \E t \in AllStoppers :
    /\ pc[t] = "sd_wait"
    /\ ctx[t] = "done"
    /\ wg = 1
    /\ batch = <<>>
    /\ handed # <<>>

\* C14: a Shutdown call that leaves its wait while the flusher has not
\* exited does so because its context is done and returns the context's
\* error; the return leaves the flusher where it was, and once the stop
\* channel is closed the flusher ends its send and exits.
C14_DeadlineLeavesFlusher ==
  /\ [][\A t \in AllStoppers :
          (pc[t] = "sd_wait" /\ pc'[t] = "idle" /\ wg = 1)
            => /\ ctx[t] = "done"
               /\ result'[t] = "ctxErr"
               /\ pc'[Flusher] = pc[Flusher]
               /\ wg' = 1]_vars
  /\ ((stopCh = "closed") ~> (pc[Flusher] = "exited" \/ panicked))

\* Shutdown has returned the deadline error while the flusher is inside a
\* send or a backoff sleep.
C14_Witness ==
  \E t \in AllStoppers :
    /\ pc[t] = "idle"
    /\ result[t] = "ctxErr"
    /\ InSend(Flusher)

\* C15, as stated: every Shutdown call that returned nil, repeated and
\* concurrent calls included, returned in a state where the flusher had exited.
C15_NilOnlyWhenStopped ==
  \A t \in AllStoppers : result[t] = "nil" => wg = 0

\* C15, amended: a Shutdown call returns nil either from its wait, and then
\* the flusher has exited, or from the test of the stop channel, which it
\* found closed by an earlier or concurrent call.
C15_NilFromWaitOnlyWhenStopped ==
  [][\A t \in AllStoppers :
       (pc[t] # "idle" /\ pc'[t] = "idle" /\ result'[t] = "nil")
         => \/ (pc[t] = "sd_wait" /\ wg = 0 /\ pc[Flusher] = "exited")
            \/ (pc[t] = "sd_check" /\ stopCh = "closed")]_vars

\* The call that closed the stop channel has returned nil after the flusher
\* exited, and a batch was sent on the way.
C15_Witness ==
  \E t \in AllStoppers :
    /\ pc[t] = "idle"
    /\ result[t] = "nil"
    /\ ~repeat[t]
    /\ pc[Flusher] = "exited"
    /\ handed # <<>>

(***************************************************************************)
(* Properties of Export as its caller sees it                              *)
(***************************************************************************)
\* C16: no Export / ExportSpans call returns anything but nil, whatever
\* became of the batches it flushed (transport error, 5xx to exhaustion, 4xx,
\* serialization error).
C16_ExportReturnsNil == exportErr = FALSE

\* A producer is back from Export while the console shows that the batch it
\* flushed itself was given up after the last retry.
C16_Witness ==
  \E p \in Producers :
    /\ pc[p] = "idle"
    /\ \E l \in Range(console) : l[1] = p /\ l[3] = "giveup"

\* C17: a producer inside Export is never inside sendWithRetry: it waits
\* neither for the HTTP send nor for a backoff sleep.
C17_ExportNeverWaitsForSend ==
  \A p \in Producers : ~InSend(p)

\* C18: a task inside sendWithRetry (HTTP send or backoff sleep) does not
\* hold the buffer mutex, and while some task is there the mutex is free or
\* held by a task in the snapshot-and-clear critical section.
C18_NoLockWhileSending ==
  /\ \A t \in Tasks : InSend(t) => batchMu # t
  /\ (\E t \in Tasks : InSend(t))
       => (batchMu = NoTask \/ pc[batchMu] = "fl_clear")

\* While one task is inside sendWithRetry a producer has completed an append:
\* the buffer, which the sender's flush had cleared, holds a record again.
C18_Witness ==
  \E t \in Tasks :
    /\ InSend(t)
    /\ batch # <<>>
    /\ batchMu = NoTask

(***************************************************************************)
(* Order of the POSTs, read from the console                               *)
(***************************************************************************)
\* The batches that are being sent or have printed a line.
KnownBatches == ({mine[t] : t \in Tasks} \ {NoBatch}) \cup {l[2] : l \in Range(console)}

\* Position in the console of the first line of an HTTP attempt for batch b,
\* 0 when there is none yet.
FirstPost(b) ==
  LET at == {i \in 1..Len(console) :
               console[i][2] = b /\ console[i][3] \in {"sent", "failed"}}
  IN IF at = {} THEN 0 ELSE CHOOSE i \in at : \A j \in at : i <= j

Posted(b) == FirstPost(b) # 0

\* A batch that never reaches client.Do: it failed to serialize or the
\* request could not be built.
Dropped(b) ==
  \E l \in Range(console) : l[2] = b /\ l[3] \in {"marshal", "noreq"}

InOrder(a, b) == Posted(b) => (Posted(a) /\ FirstPost(a) < FirstPost(b))

\* C19, as stated: for any two batches of one exporter, the one whose
\* snapshot was taken first has its first POST issued first.
C19_PostsInSnapshotOrder ==
  \A a, b \in KnownBatches :
    (a[2] < b[2] /\ ~Dropped(a)) => InOrder(a, b)

\* C19, amended: two batches whose snapshots were taken by the same task
\* have their first POSTs in the order of the snapshots.
C19_PostsInOrderPerTask ==
  \A a, b \in KnownBatches :
    (a[1] = b[1] /\ a[2] < b[2] /\ ~Dropped(a)) => InOrder(a, b)

\* One task took two snapshots and both batches have been POSTed.
C19_Witness ==
  \E a, b \in KnownBatches :
    a[1] = b[1] /\ a[2] < b[2] /\ Posted(a) /\ Posted(b)

(***************************************************************************)
(* SDK.Shutdown: the exporters the SDK created, then the two providers     *)
(***************************************************************************)
Providers == {"tracerProvider", "meterProvider"}

\* The order of SDK.Shutdown: logs, spans and metrics exporters, tracer
\* provider, meter provider, then the test of errs.
AfterStep(c) ==
  IF c = "logs" THEN "spans"
  ELSE IF c = "spans" THEN "metrics"
  ELSE IF c = "metrics" THEN "tracerProvider"
  ELSE IF c = "tracerProvider" THEN "meterProvider"
  ELSE "return"

\* newSDK hands the span exporter to the tracer provider's batcher and the
\* metrics exporter to the meter provider's periodic reader; a provider that
\* shuts down calls Shutdown of the exporter it was given.
ExporterOf(c) == IF c = "tracerProvider" THEN "spans" ELSE "metrics"

\* What Shutdown of a default exporter can do, by whether its stop channel is
\* already closed: without the test of stopCh the second close panics.
ExporterShutdownResults(k, closed) ==
  IF closed
  THEN IF HasStopGuard(k) THEN {"nil"} ELSE {"panic"}
  ELSE {"nil", "ctxErr"}

\* newSDK: a default exporter is created for every kind without a custom one.
InitSdk ==
  /\ NewExporter
  /\ urlOK = TRUE
  /\ debug = FALSE
  /\ RetryOff
  /\ sdk_pc = "idle"
  /\ sdk_defaults \in SUBSET Kinds
  /\ sdk_closed = {}
  /\ sdk_tried = {}
  /\ sdk_errs = {}
  /\ sdk_ret = "none"
  /\ sdk_calls = [k \in Kinds |-> 0]
  /\ once = "new"
  /\ globalSDK = "nil"
  /\ newRuns = 0
  /\ a_pc = [c \in Callers |-> "idle"]
  /\ a_cfg = [c \in Initers |-> NilConfig]
  /\ a_ret = [c \in Callers |-> "none"]
  /\ sdk_config = [nil |-> FALSE, replace |-> FALSE, prev |-> "nil",
                   custom |-> Kinds \ sdk_defaults]
  /\ route = [k \in Kinds |-> IF k \in sdk_defaults THEN "default" ELSE "custom"]
  /\ slogDefault = UserHandler
  /\ chain = BaseHandler
  /\ got = [h \in Sinks |-> <<>>]
  /\ nextLog = 1
  /\ ExtOff
  /\ TpOff

\* if s.config.ReplaceSlog && s.config.PreviousSlogHandler != nil
Restores(cfg) == cfg.replace /\ cfg.prev # "nil"

\* The start of SDK.Shutdown: var errs []error, then the previous slog
\* handler is made the default again if the config holds one.
SdkShutdownBegin ==
  /\ sdk_pc \in {"idle", "done"}
  /\ sdk_pc' = "logs"
  /\ sdk_tried' = {}
  /\ sdk_errs' = {}
  /\ sdk_ret' = "none"
  /\ sdk_calls' = [k \in Kinds |-> 0]
  /\ slogDefault' = IF Restores(sdk_config) THEN sdk_config.prev ELSE slogDefault
  /\ UNCHANGED <<expVars, urlOK, retryVars, obsVars, extVars, tpVars, sdk_defaults, sdk_closed,
                 once, globalSDK, newRuns, a_cfg, sdk_config, route, chain,
                 got, nextLog>>

\* A call of SDK.Shutdown on the instance.
SdkShutdownCall ==
  /\ SdkShutdownBegin
  /\ UNCHANGED <<a_pc, a_ret>>

\* if s.defaultXExporter != nil { if err := ...Shutdown(ctx); err != nil {
\* errs = append(errs, ...) } }
SdkExporterShutdown(k, r) ==
  /\ sdk_pc = k
  /\ k \in Kinds
  /\ IF k \notin sdk_defaults
     THEN /\ sdk_pc' = AfterStep(k)
          /\ UNCHANGED <<sdk_closed, sdk_tried, sdk_errs, sdk_calls>>
     ELSE /\ r \in ExporterShutdownResults(k, k \in sdk_closed)
          /\ sdk_calls' = [sdk_calls EXCEPT ![k] = @ + 1]
          /\ sdk_tried' = sdk_tried \cup {k}
          /\ sdk_pc' = IF r = "panic" THEN "panicked" ELSE AfterStep(k)
          /\ sdk_closed' = sdk_closed \cup {k}
          /\ sdk_errs' = IF r = "ctxErr" THEN sdk_errs \cup {k} ELSE sdk_errs
  /\ UNCHANGED <<expVars, urlOK, retryVars, obsVars, appVars, sdk_defaults, sdk_ret>>

\* if err := s.tracerProvider.Shutdown(ctx); err != nil { errs = append(...) }
\* and the same for s.meterProvider.  The provider shuts its exporter down
\* (r) and returns nil or an error of its own (e).
SdkProviderShutdown(c, r, e) ==
  /\ sdk_pc = c
  /\ c \in Providers
  /\ e \in {"nil", "err"}
  /\ sdk_tried' = sdk_tried \cup {c}
  /\ sdk_calls' = [sdk_calls EXCEPT ![ExporterOf(c)] = @ + 1]
  /\ IF ExporterOf(c) \in sdk_defaults
     THEN /\ r \in ExporterShutdownResults(ExporterOf(c), ExporterOf(c) \in sdk_closed)
          /\ sdk_closed' = sdk_closed \cup {ExporterOf(c)}
     ELSE /\ r = "nil"
          /\ UNCHANGED sdk_closed
  /\ sdk_pc' = IF r = "panic" THEN "panicked" ELSE AfterStep(c)
  /\ sdk_errs' = IF r # "panic" /\ e = "err" THEN sdk_errs \cup {c} ELSE sdk_errs
  /\ UNCHANGED <<expVars, urlOK, retryVars, obsVars, appVars, sdk_defaults, sdk_ret>>

\* if len(errs) > 0 { return fmt.Errorf("shutdown errors: %v", errs) }; return nil
SdkReturn ==
  /\ sdk_pc = "return"
  /\ sdk_ret' = IF sdk_errs # {} THEN "err" ELSE "nil"
  /\ sdk_pc' = "done"
  /\ UNCHANGED <<expVars, urlOK, retryVars, obsVars, appVars, sdk_defaults, sdk_closed,
                 sdk_tried, sdk_errs, sdk_calls>>

NextSdk ==
  \/ SdkShutdownCall
  \/ \E k \in Kinds, r \in {"nil", "ctxErr", "panic"} : SdkExporterShutdown(k, r)
  \/ \E c \in Providers, r \in {"nil", "ctxErr", "panic"}, e \in {"nil", "err"} :
       SdkProviderShutdown(c, r, e)
  \/ SdkReturn

SdkSpec == InitSdk /\ [][NextSdk]_vars

\* C20: a call of SDK.Shutdown that has ended has called Shutdown of every
\* default exporter that exists and of both providers, whatever the earlier
\* ones returned, and what it returns is an error exactly when one of them
\* returned an error.
C20_ShutdownAttemptsAll ==
  /\ sdk_pc \in {"done", "panicked"} => (sdk_defaults \cup Providers) \subseteq sdk_tried
  /\ sdk_pc = "done" => (sdk_ret = "err" <=> sdk_errs # {})

(***************************************************************************)
(* The package: Init, Get and Shutdown around the global instance, newSDK, *)
(* and the standard slog functions logging to slog.Default().              *)
(***************************************************************************)
MaxLogs == 2

\* The configs a caller passes to Init.
Configs ==
  {NilConfig} \cup [nil : {FALSE}, replace : BOOLEAN,
                    prev : {"nil", UserHandler}, custom : SUBSET Kinds]

\* if config == nil { config = NewConfig() }: ReplaceSlog defaults to true,
\* no previous handler, no custom exporter.
ConfigOf(cfg) ==
  IF cfg.nil
  THEN [nil |-> FALSE, replace |-> TRUE, prev |-> "nil", custom |-> {}]
  ELSE cfg

\* The instances newSDK returns, by the number of its run.
SdkName == <<"sdk1", "sdk2", "sdk3">>

\* sync.Once.Do runs f when no earlier call has run it.
OnceRunsAgain(o) == o \in {"new", "done"}

OnceRuns(o) == o = "new"

\* newSDK creates the default exporter of a kind when the config has no
\* custom one: if config.CustomXExporter != nil { ... } else { NewXExporter }.
DefaultsForAll(custom) == Kinds

DefaultsFor(custom) == Kinds \ custom

\* if config.ReplaceSlog { if _, already := slog.Default().Handler()
\* .(*LumberjackHandler); !already { ... slog.SetDefault(...) } }
ReplacesDefaultAlways(cfg, cur) == cur # LumberjackH

ReplacesDefault(cfg, cur) == cfg.replace /\ cur # LumberjackH

\* Init(config): the call, up to once.Do.
InitCall(c, cfg) ==
  /\ c \in Initers
  /\ a_pc[c] = "idle"
  /\ a_pc' = [a_pc EXCEPT ![c] = "once"]
  /\ a_cfg' = [a_cfg EXCEPT ![c] = cfg]
  /\ a_ret' = [a_ret EXCEPT ![c] = "none"]
  /\ UNCHANGED <<expVars, urlOK, retryVars, obsVars, extVars, tpVars, sdkVars, once, globalSDK,
                 newRuns, sdk_config, route, slogDefault, chain, got, nextLog>>

\* once.Do(f): the first caller runs f, a caller arriving while f runs waits
\* for it, a later caller returns at once.
OnceDo(c) ==
  /\ c \in Initers
  /\ a_pc[c] = "once"
  /\ once # "running"
  /\ IF OnceRuns(once)
     THEN /\ once' = "running"
          /\ a_pc' = [a_pc EXCEPT ![c] = "newSDK"]
     ELSE /\ a_pc' = [a_pc EXCEPT ![c] = "ret"]
          /\ UNCHANGED once
  /\ UNCHANGED <<expVars, urlOK, retryVars, obsVars, extVars, tpVars, sdkVars, globalSDK, newRuns,
                 a_cfg, a_ret, sdk_config, route, slogDefault, chain, got, nextLog>>

\* var handler *LumberjackHandler: assigned when ReplaceSlog is off, or when it
\* is on and the slog default is not yet a LumberjackHandler; nil otherwise.
LoggerHandler(cfg, cur) ==
  IF cfg.replace /\ cur = LumberjackH THEN "nil" ELSE LumberjackH

\* newSDK(config): the exporters, the slog default, the handler of the Logger
\* and the SDK.
NewSDKBody(config) ==
  /\ newRuns < Len(SdkName)
  /\ LET cfg == ConfigOf(config) IN
       /\ sdk_config' = cfg
       /\ sdk_defaults' = DefaultsFor(cfg.custom)
       /\ route' = [k \in Kinds |-> IF k \in cfg.custom THEN "custom" ELSE "default"]
       /\ slogDefault' = IF ReplacesDefault(cfg, slogDefault)
                         THEN LumberjackH ELSE slogDefault
       /\ chain' = IF cfg.replace /\ slogDefault = LumberjackH
                   THEN chain ELSE BaseHandler
       /\ sdk_handler' = LoggerHandler(cfg, slogDefault)
  /\ sdk_pc' = "idle"
  /\ sdk_closed' = {}
  /\ sdk_tried' = {}
  /\ sdk_errs' = {}
  /\ sdk_ret' = "none"
  /\ sdk_calls' = [k \in Kinds |-> 0]
  /\ newRuns' = newRuns + 1
  /\ UNCHANGED <<expVars, urlOK, retryVars, obsVars, legVars, recLimit, logVars, tpVars,
                 got, nextLog>>

\* globalSDK = newSDK(config), inside once.Do.
NewSDK(c) ==
  /\ c \in Initers
  /\ a_pc[c] = "newSDK"
  /\ NewSDKBody(a_cfg[c])
  /\ globalSDK' = SdkName[newRuns + 1]
  /\ once' = "done"
  /\ a_pc' = [a_pc EXCEPT ![c] = "ret"]
  /\ UNCHANGED <<a_cfg, a_ret>>

\* sdk := newSDK(config), called directly as the tests of the package do.
DirectNewSDK(config) ==
  /\ sdk_pc \in {"off", "idle", "done"}
  /\ NewSDKBody(config)
  /\ UNCHANGED <<globalSDK, once, a_pc, a_cfg, a_ret>>

\* return globalSDK
InitReturn(c) ==
  /\ c \in Initers
  /\ a_pc[c] = "ret"
  /\ a_ret' = [a_ret EXCEPT ![c] = globalSDK]
  /\ a_cfg' = [a_cfg EXCEPT ![c] = NilConfig]
  /\ a_pc' = [a_pc EXCEPT ![c] = "done"]
  /\ UNCHANGED <<expVars, urlOK, retryVars, obsVars, extVars, tpVars, sdkVars, once, globalSDK,
                 newRuns, sdk_config, route, slogDefault, chain, got, nextLog>>

\* if globalSDK == nil { panic(...) }; return globalSDK
GetResultNil(g) == g

GetResult(g) == IF g = "nil" THEN "panic" ELSE g

\* Get()
GetCall(c) ==
  /\ c \in Getters
  /\ a_pc[c] = "idle"
  /\ a_ret' = [a_ret EXCEPT ![c] = GetResult(globalSDK)]
  /\ a_pc' = [a_pc EXCEPT ![c] = "done"]
  /\ UNCHANGED <<expVars, urlOK, retryVars, obsVars, extVars, tpVars, sdkVars, once, globalSDK,
                 newRuns, a_cfg, sdk_config, route, slogDefault, chain, got, nextLog>>

\* Shutdown(ctx): if globalSDK != nil { return globalSDK.Shutdown(ctx) };
\* return nil
PkgShutdownCall(c) ==
  /\ c \in Closers
  /\ a_pc[c] = "idle"
  /\ IF globalSDK = "nil"
     THEN /\ a_ret' = [a_ret EXCEPT ![c] = "nil"]
          /\ a_pc' = [a_pc EXCEPT ![c] = "done"]
          /\ UNCHANGED <<expVars, urlOK, retryVars, obsVars, extVars, tpVars, sdkVars, once,
                         globalSDK, newRuns, a_cfg, sdk_config, route,
                         slogDefault, chain, got, nextLog>>
     ELSE /\ SdkShutdownBegin
          /\ a_pc' = [a_pc EXCEPT ![c] = "inSdk"]
          /\ UNCHANGED a_ret

\* The return of globalSDK.Shutdown(ctx) is the return of Shutdown(ctx).
PkgShutdownReturn(c) ==
  /\ c \in Closers
  /\ a_pc[c] = "inSdk"
  /\ sdk_pc = "done"
  /\ a_ret' = [a_ret EXCEPT ![c] = sdk_ret]
  /\ a_pc' = [a_pc EXCEPT ![c] = "done"]
  /\ UNCHANGED <<expVars, urlOK, retryVars, obsVars, extVars, tpVars, sdkVars, once, globalSDK,
                 newRuns, a_cfg, sdk_config, route, slogDefault, chain, got, nextLog>>

\* LumberjackHandler.Handle gives the record to the logs exporter of the SDK
\* and to the handler it was chained to; any other handler keeps it.
HandleTargets(h) ==
  IF h = LumberjackH THEN <<route["logs"], chain>> ELSE <<h>>

\* slog.Info and the other standard functions: slog.Default().Handler().Handle
SlogLog ==
  /\ nextLog <= MaxLogs
  /\ got' = [h \in Sinks |->
               IF h \in Range(HandleTargets(slogDefault))
               THEN Append(got[h], nextLog) ELSE got[h]]
  /\ nextLog' = nextLog + 1
  /\ UNCHANGED <<expVars, urlOK, retryVars, obsVars, extVars, tpVars, sdkVars, once, globalSDK,
                 newRuns, a_pc, a_cfg, a_ret, sdk_config, route, slogDefault, chain>>

\* The configs the callers of Init pass when they race: none, the slog
\* default replaced, and a custom span exporter without replacement.
InitConfigs ==
  {NilConfig,
   [nil |-> FALSE, replace |-> TRUE, prev |-> "nil", custom |-> {}],
   [nil |-> FALSE, replace |-> FALSE, prev |-> "nil", custom |-> {"spans"}]}

\* The package around one logs exporter.
InitApp == Init /\ kind = "logs"

NextApp ==
  \/ \E c \in Initers, cfg \in InitConfigs : InitCall(c, cfg)
  \/ \E c \in Initers : OnceDo(c)
  \/ \E c \in Initers : NewSDK(c)
  \/ \E c \in Initers : InitReturn(c)
  \/ \E c \in Getters : GetCall(c)
  \/ \E c \in Closers : PkgShutdownCall(c)
  \/ \E c \in Closers : PkgShutdownReturn(c)
  \/ \E k \in Kinds, r \in {"nil", "ctxErr", "panic"} : SdkExporterShutdown(k, r)
  \/ \E c \in Providers, r \in {"nil", "ctxErr", "panic"}, e \in {"nil", "err"} :
       SdkProviderShutdown(c, r, e)
  \/ SdkReturn

AppSpec == InitApp /\ [][NextApp]_vars

\* One program: it calls Init once with any config, logs through the
\* standard slog functions and shuts the instance down.
NextSlog ==
  \/ \E cfg \in Configs : InitCall("i1", cfg)
  \/ OnceDo("i1")
  \/ NewSDK("i1")
  \/ InitReturn("i1")
  \/ SlogLog
  \/ SdkShutdownCall
  \/ \E k \in Kinds, r \in {"nil", "ctxErr", "panic"} : SdkExporterShutdown(k, r)
  \/ \E c \in Providers, r \in {"nil", "ctxErr", "panic"}, e \in {"nil", "err"} :
       SdkProviderShutdown(c, r, e)
  \/ SdkReturn

SlogSpec == InitApp /\ [][NextSlog]_vars

\* C21: newSDK runs at most once whatever the Init calls and their configs
\* are, every Init call that has returned has returned the one instance, a
\* Get made while no Init has run has panicked, and a package Shutdown made
\* while no instance exists has returned nil and has started no SDK.Shutdown.
C21_InitOnce ==
  /\ newRuns <= 1
  /\ \A c \in Initers : a_pc[c] = "done" =>
       /\ a_ret[c] = SdkName[1]
       /\ a_ret[c] = globalSDK
  /\ \A c \in Getters : a_pc[c] = "done" /\ newRuns = 0 => a_ret[c] = "panic"
  /\ \A c \in Getters : a_pc[c] = "done" /\ a_ret[c] # "panic" => a_ret[c] = globalSDK
  /\ \A c \in Closers : a_pc[c] = "done" /\ newRuns = 0 =>
       a_ret[c] = "nil" /\ sdk_pc = "off"

\* One Init call has returned the instance and the other, given another
\* config, is past once.Do; Get has panicked and Shutdown has returned nil.
C21_Witness ==
  /\ \E c, d \in Initers :
       /\ a_pc[c] = "done"
       /\ a_pc[d] = "ret"
       /\ ConfigOf(a_cfg[d]) # sdk_config
  /\ \E c \in Getters : a_ret[c] = "panic"
  /\ \E c \in Closers : a_pc[c] = "done" /\ a_ret[c] = "nil" /\ sdk_pc = "idle"

\* The records logged so far through the standard slog functions, in call
\* order.
AllLogged == [i \in 1..(nextLog - 1) |-> i]

\* The SDK exists and SDK.Shutdown has not been called on it.
SdkActive == newRuns >= 1 /\ sdk_pc = "idle"

\* C22: once the SDK.Shutdown of an SDK created with ReplaceSlog = true has
\* returned, the handler of slog.Default() is the handler that was the
\* default before the SDK was created.
C22_SlogRestored ==
  (newRuns >= 1 /\ sdk_config.replace /\ sdk_pc = "done") =>
    slogDefault = UserHandler

\* C23: while an SDK created with ReplaceSlog = true is active, a record
\* logged through the standard slog functions is appended once to what the
\* logs exporter of the SDK was given and once to what the handler that was
\* the default before the SDK was created was given.
C23_ForwardedToBoth ==
  [][(SdkActive /\ sdk_config.replace /\ nextLog' = nextLog + 1) =>
       /\ got'[route["logs"]] = Append(got[route["logs"]], nextLog)
       /\ got'[UserHandler] = Append(got[UserHandler], nextLog)]_vars

\* C24: an SDK created with ReplaceSlog = false leaves the handler of
\* slog.Default() the one it was, and every record logged through the
\* standard slog functions has reached that handler and nothing else.
C24_DefaultUntouched ==
  (newRuns >= 1 /\ ~sdk_config.replace) =>
    /\ slogDefault = UserHandler
    /\ got[UserHandler] = AllLogged
    /\ \A h \in Sinks \ {UserHandler} : got[h] = <<>>

\* An SDK created with ReplaceSlog = false is active and a record has been
\* logged.
C24_Witness ==
  /\ SdkActive
  /\ ~sdk_config.replace
  /\ a_pc["i1"] = "done"
  /\ nextLog > 1

(***************************************************************************)
(* ContextWithTraceparent and parseTraceparent.  A string is the sequence  *)
(* of its characters.                                                      *)
(***************************************************************************)
\* The characters hex decoding of a trace or span ID accepts, by value.
HexDigits == <<"0", "1", "2", "3", "4", "5", "6", "7", "8", "9",
               "a", "b", "c", "d", "e", "f">>

IsHexChar(c) == \E i \in 1..16 : HexDigits[i] = c

HexVal(c) == (CHOOSE i \in 1..16 : HexDigits[i] = c) - 1

\* n times the character c.
Rep(c, n) == [i \in 1..n |-> c]

\* strings.Split(s, "-")
RECURSIVE Split(_)
Split(s) ==
  IF \A i \in 1..Len(s) : s[i] # "-"
  THEN <<s>>
  ELSE LET i == CHOOSE j \in 1..Len(s) :
                  s[j] = "-" /\ \A k \in 1..(j - 1) : s[k] # "-"
       IN  <<SubSeq(s, 1, i - 1)>> \o Split(SubSeq(s, i + 1, Len(s)))

\* The bytes a string of hex characters stands for.
DecodeHex(h) ==
  [i \in 1..(Len(h) \div 2) |-> 16 * HexVal(h[2 * i - 1]) + HexVal(h[2 * i])]

\* trace.TraceIDFromHex and trace.SpanIDFromHex return an error for a string
\* of another length than twice n, one with a character that is no lower-case
\* hex digit, and the all-zero ID.
IDFromHexOK(h, n) ==
  /\ Len(h) = 2 * n
  /\ \A i \in 1..Len(h) : IsHexChar(h[i])
  /\ \E i \in 1..Len(h) : h[i] # "0"

\* if parts[3] == "01" { traceFlags = trace.FlagsSampled }
SampledOf(f) == f = <<"0", "1">>

\* parseTraceparent: the span context and the error.
parseTraceparent(tp) ==
  LET parts == Split(tp)
      fail(e) == [span |-> NoSpan, err |-> e]
  IN  IF Len(parts) # 4 THEN fail("parts")
      ELSE IF parts[1] # <<"0", "0">> THEN fail("version")
      ELSE IF Len(parts[2]) # 32 THEN fail("traceLen")
      ELSE IF ~IDFromHexOK(parts[2], TraceIDBytes) THEN fail("traceID")
      ELSE IF Len(parts[3]) # 16 THEN fail("spanLen")
      ELSE IF ~IDFromHexOK(parts[3], SpanIDBytes) THEN fail("spanID")
      ELSE IF Len(parts[4]) # 2 THEN fail("flagsLen")
      ELSE [span |-> [traceID |-> DecodeHex(parts[2]),
                      spanID |-> DecodeHex(parts[3]),
                      sampled |-> SampledOf(parts[4]),
                      remote |-> TRUE],
            err |-> "nil"]

\* ContextWithTraceparent: on an error the context it was given, else
\* trace.ContextWithRemoteSpanContext(ctx, spanCtx).
ContextWithTraceparent(c, tp) ==
  LET r == parseTraceparent(tp)
  IN  IF r.err # "nil"
      THEN [ctx |-> c, err |-> "invalid traceparent"]
      ELSE [ctx |-> [name |-> "remote", span |-> r.span], err |-> "nil"]

\* Parts joined by "-".
RECURSIVE Join(_)
Join(ps) ==
  IF Len(ps) = 0 THEN <<>>
  ELSE IF Len(ps) = 1 THEN ps[1]
  ELSE ps[1] \o <<"-">> \o Join(Tail(ps))

\* The traceparent strings tried: every combination of a version, a trace
\* ID, a span ID and flags, each well formed or broken in one way, and the
\* same with the flags missing or given twice.
TpVersions == {<<"0", "0">>, <<"0", "1">>, <<"0">>}
TpTraceIDs ==
  {Rep("a", 31) \o <<"1">>, Rep("0", 32), Rep("a", 31), Rep("a", 31) \o <<"z">>,
   <<"A">> \o Rep("a", 31)}
TpSpanIDs == {Rep("b", 15) \o <<"2">>, Rep("0", 16), Rep("b", 15), Rep("b", 15) \o <<"z">>}
TpFlags == {<<"0", "0">>, <<"0", "1">>, <<"0", "3">>, <<"z", "z">>, <<"1">>}
TpInputs ==
  {Join(<<v, t, s, f>>) : v \in TpVersions, t \in TpTraceIDs, s \in TpSpanIDs, f \in TpFlags}
    \cup {Join(<<v, t, s>>) : v \in TpVersions, t \in TpTraceIDs, s \in TpSpanIDs}
    \cup {Join(<<<<"0", "0">>, t, s, f, f>>) : t \in TpTraceIDs, s \in TpSpanIDs, f \in TpFlags}
    \cup {<<>>}

\* One call of ContextWithTraceparent on a context and a string.
InitTp ==
  /\ NewExporter
  /\ kind = "logs"
  /\ urlOK = TRUE
  /\ debug = FALSE
  /\ RetryOff
  /\ SdkOff
  /\ once = "new"
  /\ globalSDK = "nil"
  /\ newRuns = 0
  /\ a_pc = [c \in Callers |-> "idle"]
  /\ a_cfg = [c \in Initers |-> NilConfig]
  /\ a_ret = [c \in Callers |-> "none"]
  /\ sdk_config = NilConfig
  /\ route = [k \in Kinds |-> "none"]
  /\ slogDefault = UserHandler
  /\ chain = "none"
  /\ got = [h \in Sinks |-> <<>>]
  /\ nextLog = 1
  /\ ExtOff
  /\ tp_pc = "idle"
  /\ tp_in \in TpInputs
  /\ tp_out = [ctx |-> Ctx0, err |-> "none"]

TraceparentCall ==
  /\ tp_pc = "idle"
  /\ tp_out' = ContextWithTraceparent(Ctx0, tp_in)
  /\ tp_pc' = "done"
  /\ UNCHANGED <<expVars, urlOK, retryVars, obsVars, extVars, sdkVars, once, globalSDK,
                 newRuns, a_pc, a_cfg, a_ret, sdk_config, route, slogDefault,
                 chain, got, nextLog, tp_in>>

NextTp == TraceparentCall

TpSpec == InitTp /\ [][NextTp]_vars

\* The characters of s from position a to position b are hex digits.
AllHex(s, a, b) == \A i \in a..b : IsHexChar(s[i])

\* Not every character of s from position a to position b is "0".
NotAllZero(s, a, b) == \E i \in a..b : s[i] # "0"

\* A traceparent as the W3C format has it: "00", 32 hex characters that are
\* not all zero, 16 hex characters that are not all zero and 2 hex
\* characters, with one "-" between them and nowhere else.
WellFormed(s) ==
  /\ Len(s) = 55
  /\ \A i \in 1..55 : (s[i] = "-") <=> (i \in {3, 36, 53})
  /\ s[1] = "0" /\ s[2] = "0"
  /\ AllHex(s, 4, 35) /\ NotAllZero(s, 4, 35)
  /\ AllHex(s, 37, 52) /\ NotAllZero(s, 37, 52)
  /\ AllHex(s, 54, 55)

\* The hex string of a sequence of bytes.
EncodeHex(bs) ==
  [i \in 1..(2 * Len(bs)) |->
     IF i % 2 = 1 THEN HexDigits[(bs[(i + 1) \div 2] \div 16) + 1]
     ELSE HexDigits[(bs[i \div 2] % 16) + 1]]

\* C25: a call of ContextWithTraceparent with a string that is no well
\* formed traceparent has returned an error and the context it was given;
\* with a well formed one it has returned no error and a context whose span
\* context is remote and valid and has the trace ID and span ID of the
\* string.
C25_ContextContract ==
  tp_pc = "done" =>
    IF WellFormed(tp_in)
    THEN /\ tp_out.err = "nil"
         /\ tp_out.ctx.span.remote
         /\ tp_out.ctx.span.traceID # NoSpan.traceID
         /\ tp_out.ctx.span.spanID # NoSpan.spanID
         /\ EncodeHex(tp_out.ctx.span.traceID) = SubSeq(tp_in, 4, 35)
         /\ EncodeHex(tp_out.ctx.span.spanID) = SubSeq(tp_in, 37, 52)
    ELSE /\ tp_out.err # "nil"
         /\ tp_out.ctx = Ctx0

\* C26: parseTraceparent accepts a string exactly when it is a well formed
\* traceparent, and the span context it returns is sampled for the flags
\* "01" and not sampled for the flags "00".
C26_AcceptsExactly ==
  LET r == parseTraceparent(tp_in)
  IN  tp_pc = "done" =>
        /\ (r.err = "nil") <=> WellFormed(tp_in)
        /\ (r.err = "nil" /\ SubSeq(tp_in, 54, 55) = <<"0", "1">>) => r.span.sampled
        /\ (r.err = "nil" /\ SubSeq(tp_in, 54, 55) = <<"0", "0">>) => ~r.span.sampled

FailOutcomes == {o \in Outcomes : IsTransportErr(o) \/ ~IsSuccess(o)}

NextFail ==
  \/ \E p \in TimerProducers, n \in 1..MaxExport : ExportCall(p, n)
  \/ \E p \in TimerProducers, g \in 1..MaxExport : ExportAppend(p, g)
  \/ \E p \in TimerProducers : ExportReturn(p)
  \/ \E t \in Tasks : FlushEmpty(t)
  \/ \E t \in Tasks : FlushCopy(t)
  \/ \E t \in Tasks, ok \in BOOLEAN : FlushClear(t, ok)
  \/ \E t \in Tasks, o \in FailOutcomes : SendAttempt(t, o)
  \/ \E t \in Tasks : SendSleep(t)
  \/ TickerFire
  \/ FlusherTick
  \/ FlusherStop
  \/ \E t \in Stoppers, c \in Contexts : ShutdownCall(t, c)
  \/ \E t \in Stoppers : ShutdownCheck(t)
  \/ \E t \in Stoppers : ShutdownClose(t)
  \/ \E t \in Stoppers, keep \in BOOLEAN : ShutdownStopTicker(t, keep)
  \/ \E t \in Stoppers : CtxExpire(t)
  \/ \E t \in Stoppers : ShutdownDone(t)
  \/ \E t \in Stoppers : ShutdownDeadline(t)

FailSpec ==
  /\ Init
  /\ [][NextFail]_vars
  /\ WF_vars(TickerFire)
  /\ \A t \in Tasks : WF_vars(TaskStep(t))

\* C28: with every send failing the exporter never panics, a task that has
\* entered sendWithRetry leaves it and makes at most MaxRetries + 1 attempts,
\* the step of flush that hands the snapshot on leaves the buffer empty, and
\* a Shutdown call given a context without deadline returns nil.
C28_FailingSendsHarmless ==
  /\ [](~panicked)
  /\ [](\A t \in Tasks : retries[t] <= MaxRetries + 1)
  /\ \A t \in Tasks : InSend(t) ~> ~InSend(t)
  /\ [][\A t \in Tasks : (pc[t] = "fl_clear" /\ pc'[t] # "fl_clear") => batch' = <<>>]_vars
  /\ \A s \in Stoppers :
       (pc[s] # "idle" /\ ctx[s] = "background") ~> (pc[s] = "idle" /\ result[s] = "nil")

\* C29: while every attempt of sendWithRetry has ended in a transport error
\* or a 5xx response, in any mix, each of them has counted on the one retry
\* counter: there are at most MaxRetries + 1 attempts, a sleep and a further
\* attempt follow only a failure whose attempt number (from 0) is below
\* MaxRetries, and when the loop has ended the batch was given up after
\* exactly MaxRetries + 1 attempts.
C29_SharedRetryCounter ==
  (urlOK /\ AllOutcomes(IsRetryable)) =>
    /\ r_retries = Attempts
    /\ Attempts <= MaxRetries + 1
    /\ Len(r_delays) <= MaxRetries
    /\ r_pc = "sleep" => Attempts - 1 < MaxRetries
    /\ r_pc = "done" => (Attempts = MaxRetries + 1 /\ r_result = "exhausted")

\* The loop has given the batch up after transport errors and 5xx responses.
C29_Witness ==
  /\ urlOK
  /\ r_pc = "done"
  /\ r_result = "exhausted"
  /\ AllOutcomes(IsRetryable)
  /\ \E i, j \in 1..Attempts : IsTransportErr(r_outcomes[i]) /\ r_outcomes[j] >= 500

\* C30: once stopCh is closed, the flusher waiting in its select takes no
\* tick: it starts no further flush and its next step is to exit.
C30_NoTickAfterStop ==
  [][(stopCh = "closed" /\ pc[Flusher] = "select") =>
       pc'[Flusher] \in {"select", "exited"}]_vars

\* C31: with a single producer the records are appended in the order of the
\* Export calls, and the batches taken so far, in the order of their
\* snapshots, followed by the live buffer are exactly the appended records
\* in that order, whichever of the timer, size and shutdown flushes took
\* them.
C31_BatchesKeepOrder ==
  /\ appended = [i \in 1..Len(appended) |-> i]
  /\ Sent \o batch = appended

\* Two batches were taken, by two different flushes, and hold every record.
C31_Witness ==
  /\ Len(handed) >= 2
  /\ Len(appended) = MaxRecords
  /\ Sent = appended
  /\ stopCh = "closed"

\* ---------------------------------------------------------------------------
\* The legacy core.Client (package core) and its batch (package batch).

\* Number of entries logged through the legacy client.
MaxLegacy == 3

\* The values of Config.APIKey and of the environment variable TREEBEARD_API_KEY.
CfgKeys == {"", "cfgkey"}
EnvKeys == {"", "envkey"}

\* New: if config.APIKey == "" { config.APIKey = os.Getenv("TREEBEARD_API_KEY") }
KeyOf(cfgKey, envKey) == IF cfgKey = "" THEN envKey ELSE cfgKey

\* addEntry never skips the batch.
AddSkipsNever(key) == FALSE

\* addEntry: if c.config.APIKey == "" { return }
AddSkips(key) == key = ""

\* flush: if !c.initialized || c.config.APIKey == "" { return }
FlushSkips(key) == key = ""

\* Batch.Add: appends the entry; reports whether the size or the age asks for a
\* flush (aged stands for time.Since(b.lastFlush) >= b.maxAge).
BatchAdd(b, e) == Append(b, e)
BatchShouldFlush(b, aged) == Len(b) >= BatchSize \/ aged

\* c.flush(): nothing without a key; GetEntries takes all entries and clears the
\* batch; a non-empty result is posted in one HTTP request by sendLogs.
LegFlushEffect ==
  IF FlushSkips(l_key) \/ l_batch = <<>>
  THEN UNCHANGED <<l_batch, l_sent>>
  ELSE /\ l_batch' = <<>>
       /\ l_sent' = Append(l_sent, l_batch)

\* core.New(config) with the API key taken from the config or the environment.
InitLegacy ==
  /\ NewExporter
  /\ kind = "logs"
  /\ urlOK = TRUE
  /\ debug = FALSE
  /\ RetryOff
  /\ SdkOff
  /\ PkgOff
  /\ TpOff
  /\ \E cfgKey \in CfgKeys, envKey \in EnvKeys : l_key = KeyOf(cfgKey, envKey)
  /\ l_stdout \in BOOLEAN
  /\ l_batch = <<>>
  /\ l_bg = 0
  /\ l_sent = <<>>
  /\ l_out = 0
  /\ l_stop = "open"
  /\ l_panicked = FALSE
  /\ l_next = 1
  /\ recLimit = MaxRecords
  /\ LogOff
  /\ sdk_handler = "none"

LegRest == <<expVars, urlOK, retryVars, obsVars, sdkVars, once, globalSDK, newRuns,
             a_pc, a_cfg, a_ret, sdk_config, route, slogDefault, chain, got,
             nextLog, tpVars, recLimit, logVars, sdk_handler>>

\* Client.Log and Client.LogWithContext: build the entry and call addEntry,
\* which prints it when LogToStdout, returns without a key, and otherwise adds
\* it to the batch and starts go c.flush() when Add asks for a flush.
LegLog(withCtx, aged) ==
  /\ ~l_panicked
  /\ l_next <= MaxLegacy
  /\ l_next' = l_next + 1
  /\ l_out' = IF l_stdout THEN l_out + 1 ELSE l_out
  /\ IF AddSkips(l_key)
     THEN UNCHANGED <<l_batch, l_bg>>
     ELSE /\ l_batch' = BatchAdd(l_batch, l_next)
          /\ l_bg' = IF BatchShouldFlush(l_batch', aged) THEN l_bg + 1 ELSE l_bg
  /\ UNCHANGED <<LegRest, l_key, l_stdout, l_sent, l_stop, l_panicked>>

\* A goroutine started by go c.flush() runs.
LegGoFlush ==
  /\ ~l_panicked
  /\ l_bg > 0
  /\ l_bg' = l_bg - 1
  /\ LegFlushEffect
  /\ UNCHANGED <<LegRest, l_key, l_stdout, l_out, l_stop, l_panicked, l_next>>

\* Client.Flush()
LegFlush ==
  /\ ~l_panicked
  /\ LegFlushEffect
  /\ UNCHANGED <<LegRest, l_key, l_stdout, l_bg, l_out, l_stop, l_panicked, l_next>>

\* startBackgroundFlushing: case <-c.flushTicker.C: c.flush(), until the
\* goroutine has seen the closed stopCh.
LegTick ==
  /\ ~l_panicked
  /\ l_stop = "open"
  /\ LegFlushEffect
  /\ UNCHANGED <<LegRest, l_key, l_stdout, l_bg, l_out, l_stop, l_panicked, l_next>>

\* Client.Close(): close(c.stopCh), which panics on a closed channel, then the
\* final c.flush().
LegClose ==
  /\ ~l_panicked
  /\ IF l_stop = "closed"
     THEN /\ l_panicked' = TRUE
          /\ UNCHANGED <<l_batch, l_sent, l_stop>>
     ELSE /\ l_stop' = "closed"
          /\ LegFlushEffect
          /\ UNCHANGED l_panicked
  /\ UNCHANGED <<LegRest, l_key, l_stdout, l_bg, l_out, l_next>>

NextLegacy ==
  \/ \E withCtx \in BOOLEAN, aged \in BOOLEAN : LegLog(withCtx, aged)
  \/ LegGoFlush
  \/ LegFlush
  \/ LegTick
  \/ LegClose

LegacySpec == InitLegacy /\ [][NextLegacy]_vars

\* C32: a legacy client whose API key is empty after New (none in the Config
\* and none in TREEBEARD_API_KEY) never holds an entry in its batch, never has
\* a background flush pending and never issues an HTTP request, whatever Log,
\* LogWithContext, Flush and Close calls were made.
C32_LocalOnly ==
  l_key = "" /\ l_stop # "none" =>
    /\ l_batch = <<>>
    /\ l_bg = 0
    /\ l_sent = <<>>

C32_Witness ==
  /\ l_key = ""
  /\ l_stdout
  /\ l_next > MaxLegacy
  /\ l_out = MaxLegacy
  /\ l_stop = "closed"
  /\ l_batch = <<>>
  /\ l_sent = <<>>

\* ---------------------------------------------------------------------------
\* The exporter with two producers, its flusher and one Shutdown caller, and no
\* ForceFlush caller.
NextRace ==
  \/ \E p \in Producers, n \in 1..MaxExport : ExportCall(p, n)
  \/ \E p \in Producers, g \in 1..MaxExport : ExportAppend(p, g)
  \/ \E p \in Producers : ExportReturn(p)
  \/ \E t \in Tasks : FlushEmpty(t)
  \/ \E t \in Tasks : FlushCopy(t)
  \/ \E t \in Tasks, ok \in BOOLEAN : FlushClear(t, ok)
  \/ \E t \in Tasks, o \in SendOutcomes : SendAttempt(t, o)
  \/ \E t \in Tasks : SendSleep(t)
  \/ TickerFire
  \/ FlusherTick
  \/ FlusherStop
  \/ \E t \in Stoppers, c \in Contexts : ShutdownCall(t, c)
  \/ \E t \in Stoppers : ShutdownCheck(t)
  \/ \E t \in Stoppers : ShutdownClose(t)
  \/ \E t \in Stoppers, keep \in BOOLEAN : ShutdownStopTicker(t, keep)
  \/ \E t \in Stoppers : CtxExpire(t)
  \/ \E t \in Stoppers : ShutdownDone(t)
  \/ \E t \in Stoppers : ShutdownDeadline(t)

RaceSpec == Init /\ [][NextRace]_vars

\* C33: whenever the buffer holds at least BatchSize records, some producer
\* has seen shouldFlush = true for its append and has not finished the flush
\* that follows it (it is about to call flush, or is inside it holding the
\* mutex with the buffer not yet cleared).
C33_SizeFlushPending ==
  Len(batch) >= BatchSize =>
    \E p \in Producers : pc[p] \in {"flush", "fl_clear"}

C33_Witness ==
  /\ Len(batch) >= BatchSize
  /\ sizeTriggers >= 1
  /\ batchMu = NoTask
  /\ \E p \in Producers : pc[p] = "flush"
  /\ \E q \in Producers : pc[q] = "exp_loop"

\* ---------------------------------------------------------------------------
\* The logs exporter fed with more records than one batch holds.

\* Number of records exported to the logs exporter on its own.
MaxLogRecords == 3

InitLogs ==
  /\ NewExporter
  /\ kind = "logs"
  /\ urlOK = TRUE
  /\ debug = FALSE
  /\ RetryOff
  /\ SdkOff
  /\ PkgOff
  /\ TpOff
  /\ LegOff
  /\ LogOff
  /\ sdk_handler = "none"
  /\ recLimit = MaxLogRecords

LogsSpec == InitLogs /\ [][NextTimer]_vars

\* C34: on the logs exporter every appending step of Export puts all records
\* of the call at the end of the buffer at once, and every batch handed to the
\* sender is the whole buffer of that moment, which is emptied: the records of
\* one call stay in one batch, and a batch can be longer than BatchSize.
C34_CallNeverSplit ==
  [][kind = "logs" =>
       /\ \A p \in Producers :
            todo[p] # <<>> /\ todo'[p] # todo[p] =>
              /\ todo'[p] = <<>>
              /\ batch' = batch \o todo[p]
       /\ handed' # handed =>
            /\ handed' = Append(handed, batch)
            /\ batch' = <<>>]_vars

C34_Witness ==
  /\ kind = "logs"
  /\ \E i \in 1..Len(handed) : Len(handed[i]) > BatchSize

\* ---------------------------------------------------------------------------
\* Export on an exporter that has been shut down.

\* Shutdown has completed: a call closed stopCh and returned nil after the
\* flusher had exited, and no Shutdown call is running.
ShutdownCompleted ==
  /\ stopCh = "closed"
  /\ wg = 0
  /\ \A s \in AllStoppers : pc[s] = "idle"
  /\ \E s \in AllStoppers : result[s] = "nil"

\* Callers that export only after Shutdown has completed.
LateExportCall(p, n) ==
  /\ ShutdownCompleted
  /\ ExportCall(p, n)

NextStopped ==
  \/ \E p \in Producers, n \in 1..MaxExport : LateExportCall(p, n)
  \/ \E p \in Producers, g \in 1..MaxExport : ExportAppend(p, g)
  \/ \E p \in Producers : ExportReturn(p)
  \/ \E t \in Tasks : FlushEmpty(t)
  \/ \E t \in Tasks : FlushCopy(t)
  \/ \E t \in Tasks, ok \in BOOLEAN : FlushClear(t, ok)
  \/ \E t \in Tasks, o \in SendOutcomes : SendAttempt(t, o)
  \/ \E t \in Tasks : SendSleep(t)
  \/ TickerFire
  \/ FlusherTick
  \/ FlusherStop
  \/ \E t \in Stoppers, c \in Contexts : ShutdownCall(t, c)
  \/ \E t \in Stoppers : ShutdownCheck(t)
  \/ \E t \in Stoppers : ShutdownClose(t)
  \/ \E t \in Stoppers, keep \in BOOLEAN : ShutdownStopTicker(t, keep)
  \/ \E t \in Stoppers : CtxExpire(t)
  \/ \E t \in Stoppers : ShutdownDone(t)
  \/ \E t \in Stoppers : ShutdownDeadline(t)

\* An exporter of any kind whose callers pass up to MaxLogRecords records.
InitStopped ==
  /\ NewExporter
  /\ urlOK = TRUE
  /\ debug = FALSE
  /\ RetryOff
  /\ SdkOff
  /\ PkgOff
  /\ TpOff
  /\ LegOff
  /\ LogOff
  /\ sdk_handler = "none"
  /\ recLimit = MaxLogRecords

StoppedSpec == InitStopped /\ [][NextStopped]_vars

\* C35: when every Export is called after Shutdown has completed, the only
\* panic is that of a repeated close of stopCh by Shutdown, every Export
\* returns nil, the records are appended, neither the flusher nor a Shutdown
\* takes them, and each batch handed to the sender was taken by a producer
\* whose append had brought the buffer to BatchSize.
C35_ExportAfterShutdown ==
  /\ panicked => \E s \in AllStoppers : result[s] = "panic"
  /\ ~exportErr
  /\ (\A p \in Producers : pc[p] = "idle") => Len(appended) = nextRec - 1
  /\ Len(handed) <= sizeTriggers
  /\ appended # <<>> =>
       /\ pc[Flusher] = "exited"
       /\ \A s \in AllStoppers : pc[s] \notin {"flush", "fl_clear", "send", "sleep"}

C35_Witness ==
  /\ ShutdownCompleted
  /\ ~panicked
  /\ \A p \in Producers : pc[p] = "idle"
  /\ Len(handed) = 1
  /\ Len(batch) = 1
  /\ Len(appended) > BatchSize

\* C36: in SDK.Shutdown no default exporter has its stop channel closed a
\* second time: the Shutdown that a provider passes on to its exporter finds
\* the channel closed by the SDK's direct call and leaves it alone, so
\* SDK.Shutdown does not panic.
C36_StopClosedOnce == sdk_pc # "panicked"

\* ---------------------------------------------------------------------------
\* A default span or metrics exporter under SDK.Shutdown: the SDK shuts the
\* exporter down itself (s1), then the provider built with it shuts down: it
\* exports what it still holds (p1) and calls Shutdown of the exporter (s2).

\* if s.defaultSpanExporter != nil { ...Shutdown(ctx) }, called once.
DirectShutdownCall(c) ==
  /\ result["s1"] = "none"
  /\ ShutdownCall("s1", c)

\* The SDK's own Shutdown call of the exporter has returned.
DirectShutdownOver ==
  /\ pc["s1"] = "idle"
  /\ result["s1"] \in {"nil", "ctxErr"}

\* s.tracerProvider.Shutdown / s.meterProvider.Shutdown: the span processor
\* drains its queue into ExportSpans, the periodic reader collects and calls
\* Export.
ProviderExportCall(n) ==
  /\ DirectShutdownOver
  /\ pc["s2"] = "idle"
  /\ result["s2"] = "none"
  /\ ExportCall("p1", n)

\* The provider then calls Shutdown of its exporter.
ProviderShutdownCall(c) ==
  /\ DirectShutdownOver
  /\ pc["p1"] = "idle"
  /\ result["s2"] = "none"
  /\ ShutdownCall("s2", c)

NextProvider ==
  \/ \E c \in Contexts : DirectShutdownCall(c)
  \/ \E n \in 1..MaxExport : ProviderExportCall(n)
  \/ \E c \in Contexts : ProviderShutdownCall(c)
  \/ \E g \in 1..MaxExport : ExportAppend("p1", g)
  \/ ExportReturn("p1")
  \/ \E t \in Tasks : FlushEmpty(t)
  \/ \E t \in Tasks : FlushCopy(t)
  \/ \E t \in Tasks, ok \in BOOLEAN : FlushClear(t, ok)
  \/ \E t \in Tasks, o \in SendOutcomes : SendAttempt(t, o)
  \/ \E t \in Tasks : SendSleep(t)
  \/ TickerFire
  \/ FlusherTick
  \/ FlusherStop
  \/ \E t \in AllStoppers : ShutdownCheck(t)
  \/ \E t \in AllStoppers : ShutdownClose(t)
  \/ \E t \in AllStoppers, keep \in BOOLEAN : ShutdownStopTicker(t, keep)
  \/ \E t \in AllStoppers : CtxExpire(t)
  \/ \E t \in AllStoppers : ShutdownDone(t)
  \/ \E t \in AllStoppers : ShutdownDeadline(t)

InitProvider == Init /\ kind \in {"spans", "metrics"}

ProviderSpec == InitProvider /\ [][NextProvider]_vars

\* The provider's Shutdown call of the exporter has returned, which is when
\* SDK.Shutdown goes on to return.
ProviderShutdownOver ==
  /\ pc["s2"] = "idle"
  /\ result["s2"] \in {"nil", "ctxErr"}

\* C37: once the provider's shutdown of a default exporter is over, and
\* SDK.Shutdown with it, every record the provider handed to the exporter has
\* been taken out of the buffer and passed to the sender.
C37_NothingLeftUnsent ==
  ProviderShutdownOver /\ pc["p1"] = "idle" =>
    /\ batch = <<>>
    /\ Sent = appended

\* C38: a call of SDK.Shutdown that has returned has called Shutdown of the
\* logs exporter the SDK uses exactly once, whether it is the default one or
\* a custom one given in the config.
C38_LogsExporterShutdown ==
  sdk_pc = "done" => sdk_calls["logs"] = 1

\* ---------------------------------------------------------------------------
\* Logger.With and Logger.WithGroup: the attrs slices and their backing arrays.

\* Number of With and WithGroup calls.
MaxWith == 4

\* An argument of With is a string or a value of another type.
ArgLists ==
  {<<>>, <<"str">>, <<"str", "any">>, <<"any", "any">>, <<"str", "str", "any">>,
   <<"str", "any", "str", "any">>}

\* for i := 0; i < len(args); i += 2 { if i+1 < len(args) { if key, ok :=
\* args[i].(string); ok { attrs = append(attrs, slog.Any(key, args[i+1])) } } }
\* The attribute made from the arguments at i and i+1 is named base + i.
RECURSIVE ArgsToAttrs(_, _, _)
ArgsToAttrs(args, i, base) ==
  IF i > Len(args) THEN <<>>
  ELSE (IF i + 1 <= Len(args) /\ args[i] = "str" THEN <<base + i>> ELSE <<>>)
         \o ArgsToAttrs(args, i + 2, base)

\* cap(s): a nil slice has no array.
CapOf(sl) == IF sl.arr = 0 THEN 0 ELSE Len(lg_arrays[sl.arr])

\* The elements of a slice.
ElemsOf(arrays, sl) == IF sl.arr = 0 THEN <<>> ELSE SubSeq(arrays[sl.arr], 1, sl.len)

\* The capacity append gives a grown slice of fewer than 256 elements: the
\* needed length if that is more than double the old capacity, else the double.
GrowCap(old, needed) == IF needed > 2 * old THEN needed ELSE 2 * old

\* append(s, more...): nothing to add returns s; elements that fit are written
\* into the array of s after its len; otherwise a new array takes a copy of s
\* and the new elements.  Gives the arrays and the slice.
AppendSlice(sl, more) ==
  LET needed == sl.len + Len(more)
      old == ElemsOf(lg_arrays, sl)
  IN IF more = <<>> THEN [arrays |-> lg_arrays, arr |-> sl.arr, len |-> sl.len]
     ELSE IF needed <= CapOf(sl)
     THEN [arrays |-> [lg_arrays EXCEPT ![sl.arr] =
                         [j \in 1..Len(@) |->
                            IF j > sl.len /\ j <= needed THEN more[j - sl.len] ELSE @[j]]],
           arr |-> sl.arr, len |-> needed]
     ELSE [arrays |-> Append(lg_arrays,
                        [j \in 1..GrowCap(CapOf(sl), needed) |->
                           IF j <= sl.len THEN old[j]
                           ELSE IF j <= needed THEN more[j - sl.len] ELSE 0]),
           arr |-> Len(lg_arrays) + 1, len |-> needed]

\* NewLogger(handler): attrs is nil.
InitLogger ==
  /\ NewExporter
  /\ kind = "logs"
  /\ urlOK = TRUE
  /\ debug = FALSE
  /\ RetryOff
  /\ SdkOff
  /\ PkgOff
  /\ TpOff
  /\ LegOff
  /\ recLimit = MaxRecords
  /\ sdk_handler = "none"
  /\ lg_arrays = <<>>
  /\ lg_loggers = <<[arr |-> 0, len |-> 0, want |-> <<>>]>>

LogRest == <<expVars, urlOK, retryVars, obsVars, sdkVars, once, globalSDK, newRuns,
             a_pc, a_cfg, a_ret, sdk_config, route, slogDefault, chain, got,
             nextLog, tpVars, legVars, recLimit, sdk_handler>>

\* l.With(args...): a new logger whose attrs is append(l.attrs, attrs...).  It
\* was built with the attributes of l followed by those of the arguments.
LoggerWith(l, args) ==
  /\ l \in 1..Len(lg_loggers)
  /\ Len(lg_loggers) <= MaxWith
  /\ args \in ArgLists
  /\ LET attrs == ArgsToAttrs(args, 1, 10 * Len(lg_loggers))
         r == AppendSlice(lg_loggers[l], attrs)
     IN /\ lg_arrays' = r.arrays
        /\ lg_loggers' = Append(lg_loggers,
                            [arr |-> r.arr, len |-> r.len,
                             want |-> ElemsOf(lg_arrays, lg_loggers[l]) \o attrs])
  /\ UNCHANGED LogRest

\* l.WithGroup(name): a new logger with attrs: l.attrs, the same slice.
LoggerWithGroup(l) ==
  /\ l \in 1..Len(lg_loggers)
  /\ Len(lg_loggers) <= MaxWith
  /\ lg_loggers' = Append(lg_loggers,
                      [arr |-> lg_loggers[l].arr, len |-> lg_loggers[l].len,
                       want |-> ElemsOf(lg_arrays, lg_loggers[l])])
  /\ UNCHANGED <<LogRest, lg_arrays>>

NextLogger ==
  \/ \E l \in 1..(MaxWith + 1), args \in ArgLists : LoggerWith(l, args)
  \/ \E l \in 1..(MaxWith + 1) : LoggerWithGroup(l)

LoggerSpec == InitLogger /\ [][NextLogger]_vars

\* C39: every logger keeps the attributes it was built with, those its parent
\* had at the call followed by its own, whatever With calls are made later on
\* it, on its parent or on loggers derived from the same parent.
C39_WithKeepsAttrs ==
  \A i \in 1..Len(lg_loggers) :
    ElemsOf(lg_arrays, lg_loggers[i]) = lg_loggers[i].want

\* ---------------------------------------------------------------------------
\* SDKs built one after another by newSDK, each shut down or not before the
\* next is built.
NextNewSdk ==
  \/ \E config \in Configs : DirectNewSDK(config)
  \/ sdk_pc # "off" /\ SdkShutdownCall
  \/ \E k \in Kinds, r \in {"nil", "ctxErr", "panic"} : SdkExporterShutdown(k, r)
  \/ \E c \in Providers, r \in {"nil", "ctxErr", "panic"}, e \in {"nil", "err"} :
       SdkProviderShutdown(c, r, e)
  \/ SdkReturn

NewSdkSpec == InitApp /\ [][NextNewSdk]_vars

\* C40: the handler newSDK gives to NewLogger is a LumberjackHandler and not
\* nil, for every SDK it builds, also when ReplaceSlog is on and the slog
\* default is already a LumberjackHandler.
C40_LoggerHasHandler ==
  newRuns >= 1 => sdk_handler = LumberjackH

====
